---- MODULE Spec2Model ----
(***************************************************************************)
(* Model of exammaker.editor.parse_template: the line-scan state machine   *)
(* over "% @@BEGIN_X" / "% @@END_X" marker lines and the validation of the *)
(* captured BODY, SOLUTION, CRITERIA and COURSES regions.                  *)
(*                                                                         *)
(* Text is modelled as a sequence of one-character strings, so that        *)
(* trimming, line splitting, the two regular expressions, int(), lower()   *)
(* and repr() are computed character by character.                         *)
(***************************************************************************)
EXTENDS Integers, Sequences, FiniteSets, TLC

(***************************************************************************)
(* Bounds                                                                  *)
(***************************************************************************)
\* Largest number of content lines an input template holds, all regions together.
MaxContent == 3

\* The number of save_item calls in a run of the storage specification.
MaxSaved == 2

\* Largest number of lines of a text whose lines are drawn freely, markers included.
MaxLines == 2

(***************************************************************************)
(* Python str primitives used by parse_template                            *)
(***************************************************************************)
\* Characters str.strip() removes and the regex class \s matches.
Whitespace == {" ", "\t", "\n", "\r", "\f"}

\* Characters str.splitlines() treats as a line boundary.
LineBreaks == {"\n", "\r", "\f"}

RECURSIVE LStrip(_)
LStrip(s) ==
  IF s = <<>> THEN <<>>
  ELSE IF Head(s) \in Whitespace THEN LStrip(Tail(s)) ELSE s

RECURSIVE RStrip(_)
RStrip(s) ==
  IF s = <<>> THEN <<>>
  ELSE IF s[Len(s)] \in Whitespace THEN RStrip(SubSeq(s, 1, Len(s) - 1)) ELSE s

\* str.strip()
Strip(s) == RStrip(LStrip(s))

\* str.startswith(p)
StartsWith(s, p) == Len(s) >= Len(p) /\ SubSeq(s, 1, Len(p)) = p

\* "\n".join(ls)
RECURSIVE JoinNL(_)
JoinNL(ls) ==
  IF ls = <<>> THEN <<>>
  ELSE IF Len(ls) = 1 THEN ls[1]
  ELSE ls[1] \o <<"\n">> \o JoinNL(Tail(ls))

\* The positions where a line boundary of s starts ("\r\n" is one boundary).
BreakStarts(s) ==
  { k \in 1..Len(s) : s[k] \in LineBreaks /\ ~(s[k] = "\n" /\ k > 1 /\ s[k - 1] = "\r") }

BreakLen(s, k) == IF s[k] = "\r" /\ k < Len(s) /\ s[k + 1] = "\n" THEN 2 ELSE 1

\* str.splitlines(): cut at every line boundary, the boundary characters
\* dropped, no empty last line after a final boundary.
SplitLines(s) ==
  LET T == BreakStarts(s)
      m == Cardinality(T)
      nth(n) == CHOOSE k \in T : Cardinality({x \in T : x < k}) = n - 1
      from(n) == IF n = 1 THEN 1 ELSE nth(n - 1) + BreakLen(s, nth(n - 1))
      last == from(m + 1)
  IN  [n \in 1..m |-> SubSeq(s, from(n), nth(n) - 1)]
      \o (IF last <= Len(s) THEN <<SubSeq(s, last, Len(s))>> ELSE <<>>)

UpperLetters == <<"A","B","C","D","E","F","G","H","I","J","K","L","M",
                  "N","O","P","Q","R","S","T","U","V","W","X","Y","Z">>
LowerLetters == <<"a","b","c","d","e","f","g","h","i","j","k","l","m",
                  "n","o","p","q","r","s","t","u","v","w","x","y","z">>

LowerChar(c) ==
  IF \E k \in 1..26 : UpperLetters[k] = c
  THEN LowerLetters[CHOOSE k \in 1..26 : UpperLetters[k] = c]
  ELSE c

\* str.lower()
Lower(s) == [k \in 1..Len(s) |-> LowerChar(s[k])]

Digits == <<"0","1","2","3","4","5","6","7","8","9">>
IsDigit(c) == \E k \in 1..10 : Digits[k] = c
DigitVal(c) == (CHOOSE k \in 1..10 : Digits[k] = c) - 1

\* The digit part of an int() literal: digits, single underscores allowed
\* between two digits only.
IsDigitRun(s) ==
  /\ s # <<>>
  /\ \A k \in 1..Len(s) :
       \/ IsDigit(s[k])
       \/ s[k] = "_" /\ k > 1 /\ k < Len(s) /\ IsDigit(s[k - 1]) /\ IsDigit(s[k + 1])

RECURSIVE DigitRunVal(_, _)
DigitRunVal(s, acc) ==
  IF s = <<>> THEN acc
  ELSE IF Head(s) = "_" THEN DigitRunVal(Tail(s), acc)
  ELSE DigitRunVal(Tail(s), 10 * acc + DigitVal(Head(s)))

\* int(s) raises ValueError exactly when IsInt(s) is false.
IsInt(s) ==
  LET t == Strip(s)
  IN  /\ t # <<>>
      /\ IF Head(t) \in {"+", "-"} THEN IsDigitRun(Tail(t)) ELSE IsDigitRun(t)

IntVal(s) ==
  LET t == Strip(s)
  IN  IF Head(t) = "-" THEN 0 - DigitRunVal(Tail(t), 0)
      ELSE IF Head(t) = "+" THEN DigitRunVal(Tail(t), 0)
      ELSE DigitRunVal(t, 0)

Contains(s, c) == \E k \in 1..Len(s) : s[k] = c

RECURSIVE ReprBody(_, _)
ReprBody(s, quote) ==
  IF s = <<>> THEN <<>>
  ELSE LET c == Head(s)
           e == IF c = "\\" THEN <<"\\", "\\">>
                ELSE IF c = quote THEN <<"\\", c>>
                ELSE IF c = "\n" THEN <<"\\", "n">>
                ELSE IF c = "\r" THEN <<"\\", "r">>
                ELSE IF c = "\t" THEN <<"\\", "t">>
                ELSE IF c = "\f" THEN <<"\\", "x", "0", "c">>
                ELSE <<c>>
       IN  e \o ReprBody(Tail(s), quote)

\* repr(s), the "!r" conversion of the f-strings: the text in quotes, double
\* quotes when it holds a single quote and no double quote, backslashes,
\* the quote character and control characters escaped.
PyRepr(s) ==
  LET quote == IF Contains(s, "'") /\ ~Contains(s, "\"") THEN "\"" ELSE "'"
  IN  <<quote>> \o ReprBody(s, quote) \o <<quote>>

\* Optional values: None and a present value.
None == [isNone |-> TRUE]
Some(v) == [isNone |-> FALSE, val |-> v]

\* "x or None" on a str: the empty string is falsy.
OrNone(s) == IF s = <<>> THEN None ELSE Some(s)

(***************************************************************************)
(* Template markup                                                         *)
(***************************************************************************)
BEGIN_BODY     == <<"%"," ","@","@","B","E","G","I","N","_","B","O","D","Y">>
END_BODY       == <<"%"," ","@","@","E","N","D","_","B","O","D","Y">>
BEGIN_SOLUTION == <<"%"," ","@","@","B","E","G","I","N","_","S","O","L","U","T","I","O","N">>
END_SOLUTION   == <<"%"," ","@","@","E","N","D","_","S","O","L","U","T","I","O","N">>
BEGIN_CRITERIA == <<"%"," ","@","@","B","E","G","I","N","_","C","R","I","T","E","R","I","A">>
END_CRITERIA   == <<"%"," ","@","@","E","N","D","_","C","R","I","T","E","R","I","A">>
BEGIN_COURSES  == <<"%"," ","@","@","B","E","G","I","N","_","C","O","U","R","S","E","S">>
END_COURSES    == <<"%"," ","@","@","E","N","D","_","C","O","U","R","S","E","S">>

\* class _Section
Section == {"OUTSIDE", "IN_BODY", "IN_SOLUTION", "IN_CRITERIA", "IN_COURSES"}

\* class Difficulty(str, Enum): the three values.
Easy   == <<"e","a","s","y">>
Medium == <<"m","e","d","i","u","m">>
Hard   == <<"h","a","r","d">>
Difficulty == {Easy, Medium, Hard}

\* ', '.join(sorted(_valid_difficulties))
ValidList == Easy \o <<",", " ">> \o Hard \o <<",", " ">> \o Medium

(***************************************************************************)
(* The two regular expressions                                             *)
(***************************************************************************)
NoMatch == [ok |-> FALSE, groups |-> <<>>]

IndexOf(s, c) == IF Contains(s, c) THEN CHOOSE k \in 1..Len(s) : s[k] = c /\ \A m \in 1..(k - 1) : s[m] # c
                 ELSE 0

\* n times "\{([^}]*)\}", then "\s*$".
RECURSIVE ReGroups(_, _, _)
ReGroups(s, n, acc) ==
  IF n = 0 THEN (IF LStrip(s) = <<>> THEN [ok |-> TRUE, groups |-> acc] ELSE NoMatch)
  ELSE IF s = <<>> \/ Head(s) # "{" THEN NoMatch
  ELSE LET rest == Tail(s)
           k    == IndexOf(rest, "}")
       IN  IF k = 0 THEN NoMatch
           ELSE ReGroups(SubSeq(rest, k + 1, Len(rest)), n - 1, Append(acc, SubSeq(rest, 1, k - 1)))

\* re.match of "^\s*\\<name>" followed by n brace groups and "\s*$".
ReCommand(raw, name, n) ==
  LET s == LStrip(raw)
      p == <<"\\">> \o name
  IN  IF StartsWith(s, p) THEN ReGroups(SubSeq(s, Len(p) + 1, Len(s)), n, <<>>) ELSE NoMatch

W_criterion == <<"c","r","i","t","e","r","i","o","n">>
W_course    == <<"c","o","u","r","s","e">>

\* _CRITERION_RE.match(raw)
CRITERION_RE(raw) == ReCommand(raw, W_criterion, 2)

\* The course pattern with the topic group optional (the two-argument form accepted).
COURSE_RE_Legacy(raw) ==
  IF ReCommand(raw, W_course, 3).ok THEN ReCommand(raw, W_course, 3)
  ELSE LET m == ReCommand(raw, W_course, 2)
       IN  IF m.ok THEN [ok |-> TRUE, groups |-> Append(m.groups, <<>>)] ELSE NoMatch

\* _COURSE_RE.match(raw)
COURSE_RE(raw) == ReCommand(raw, W_course, 3)

(***************************************************************************)
(* Errors: one TemplateParseError class; fmt is the literal text of the    *)
(* f-string raised (its dash is U+2014 in the source), args the            *)
(* interpolated values in order.                                           *)
(***************************************************************************)
EmptyBody        == "Body section is empty - please write the question text between the BODY markers."
BadCriterionLine == "Bad criterion line: {raw!r} - expected format: \\criterion{description}{points}"
BadPoints        == "Criterion points must be an integer, got: {pts_str!r}"
BadCourseLine    == "Bad course line: {raw!r} - expected format: \\course{course_code}{difficulty}"
InvalidDifficulty == "Invalid difficulty {diff_str!r} for course {code!r} - must be one of: {valid}"

TemplateParseError(fmt, args) == [kind |-> "error", fmt |-> fmt, args |-> args]
Parsed(v) == [kind |-> "ok", val |-> v]

(***************************************************************************)
(* Steps of parse_template as operators                                    *)
(***************************************************************************)
\* The scan state after a line: the eight marker comparisons of the if/elif chain.
IsMarker(stripped) ==
  stripped \in {BEGIN_BODY, END_BODY, BEGIN_SOLUTION, END_SOLUTION,
                BEGIN_CRITERIA, END_CRITERIA, BEGIN_COURSES, END_COURSES}

\* The scan state after a line when an end marker closes its own section
\* only.
NextSectionMatching(st, stripped) ==
  IF stripped = BEGIN_BODY THEN "IN_BODY"
  ELSE IF stripped = BEGIN_SOLUTION THEN "IN_SOLUTION"
  ELSE IF stripped = BEGIN_CRITERIA THEN "IN_CRITERIA"
  ELSE IF stripped = BEGIN_COURSES THEN "IN_COURSES"
  ELSE IF stripped = END_BODY /\ st = "IN_BODY" THEN "OUTSIDE"
  ELSE IF stripped = END_SOLUTION /\ st = "IN_SOLUTION" THEN "OUTSIDE"
  ELSE IF stripped = END_CRITERIA /\ st = "IN_CRITERIA" THEN "OUTSIDE"
  ELSE IF stripped = END_COURSES /\ st = "IN_COURSES" THEN "OUTSIDE"
  ELSE st

NextSection(st, stripped) ==
  IF stripped = BEGIN_BODY THEN "IN_BODY"
  ELSE IF stripped = END_BODY THEN "OUTSIDE"
  ELSE IF stripped = BEGIN_SOLUTION THEN "IN_SOLUTION"
  ELSE IF stripped = END_SOLUTION THEN "OUTSIDE"
  ELSE IF stripped = BEGIN_CRITERIA THEN "IN_CRITERIA"
  ELSE IF stripped = END_CRITERIA THEN "OUTSIDE"
  ELSE IF stripped = BEGIN_COURSES THEN "IN_COURSES"
  ELSE IF stripped = END_COURSES THEN "OUTSIDE"
  ELSE st

\* body_lines.append(stripped): the body line captured trimmed.
BodyCaptureStripped(line, stripped) == stripped

\* body_lines.append(line)
BodyCapture(line, stripped) == line

\* "if stripped and not stripped.startswith('%')"
IsContent(stripped) == stripped # <<>> /\ ~StartsWith(stripped, <<"%">>)

\* "\n".join(body_lines): the body joined and left untrimmed.
BodyTextUntrimmed(bl) == JoinNL(bl)

\* "\n".join(body_lines).strip()
BodyText(bl) == Strip(JoinNL(bl))

\* "\n".join(solution_lines).strip(): without "or None".
SolutionTextNoNone(sl) == Some(Strip(JoinNL(sl)))

\* "\n".join(solution_lines).strip() or None
SolutionText(sl) == OrNone(Strip(JoinNL(sl)))

\* criteria.insert(0, c): the list built in reverse.
CriteriaPrepend(cs, c) == <<c>> \o cs

\* criteria.append(Criterion(description=desc, points=pts))
CriteriaAppend(cs, c) == Append(cs, c)

\* f"... got: {raw!r}": the whole line interpolated in place of the points value.
BadPointsArgsRaw(raw, pts_str) == <<PyRepr(raw)>>

\* The value interpolated into the BadPoints message: {pts_str!r}.
BadPointsArgs(raw, pts_str) == <<PyRepr(pts_str)>>

\* One pass of the criteria loop on a captured line: a Criterion or the error raised.
CriterionOf(raw) ==
  LET m == CRITERION_RE(raw)
  IN  IF ~m.ok THEN TemplateParseError(BadCriterionLine, <<PyRepr(raw)>>)
      ELSE LET desc    == Strip(m.groups[1])
               pts_str == Strip(m.groups[2])
           IN  IF ~IsInt(pts_str) THEN TemplateParseError(BadPoints, BadPointsArgs(raw, pts_str))
               ELSE Parsed([description |-> desc, points |-> IntVal(pts_str)])

\* CourseAssignment(difficulty=Difficulty(diff_str)): the topic left at its default.
CourseAssignmentNoTopic(diff_str, topic_str) == [difficulty |-> diff_str, topic |-> None]

\* CourseAssignment(difficulty=Difficulty(diff_str), topic=topic_str)
CourseAssignment(diff_str, topic_str) == [difficulty |-> diff_str, topic |-> topic_str]

\* The two values interpolated the other way round: {code!r} ... {diff_str!r}.
InvalidDifficultyArgsSwapped(diff_str, code) == <<PyRepr(code), PyRepr(diff_str), ValidList>>

\* The values interpolated into the InvalidDifficulty message:
\* {diff_str!r}, {code!r}, {', '.join(sorted(_valid_difficulties))}.
InvalidDifficultyArgs(diff_str, code) == <<PyRepr(diff_str), PyRepr(code), ValidList>>

\* One pass of the courses loop on a captured line: (code, CourseAssignment) or the error raised.
CourseOf(raw) ==
  LET m == COURSE_RE(raw)
  IN  IF ~m.ok THEN TemplateParseError(BadCourseLine, <<PyRepr(raw)>>)
      ELSE LET code      == Strip(m.groups[1])
               diff_str  == Lower(Strip(m.groups[2]))
               topic_str == OrNone(Strip(m.groups[3]))
           IN  IF diff_str \notin Difficulty
               THEN TemplateParseError(InvalidDifficulty, InvalidDifficultyArgs(diff_str, code))
               ELSE Parsed([code |-> code, assignment |-> CourseAssignment(diff_str, topic_str)])

\* "if code not in courses: courses[code] = a": the first line for a code kept.
CoursesSetFirst(cm, code, a) ==
  IF code \in DOMAIN cm THEN cm
  ELSE [c \in (DOMAIN cm) \cup {code} |-> IF c = code THEN a ELSE cm[c]]

\* courses[code] = a
CoursesSet(cm, code, a) ==
  [c \in (DOMAIN cm) \cup {code} |-> IF c = code THEN a ELSE cm[c]]

\* ParsedTemplate(body=..., criteria=..., solution=..., courses=...)
ParsedTemplate(b, cr, sol, cm) == [body |-> b, criteria |-> cr, solution |-> sol, courses |-> cm]

(***************************************************************************)
(* Input templates: the frame of marker lines around the four regions,     *)
(* each region filled with lines of its catalogue.                         *)
(***************************************************************************)
Criterion(d, p) == <<"\\">> \o W_criterion \o <<"{">> \o d \o <<"}", "{">> \o p \o <<"}">>
Course2(c, d) == <<"\\">> \o W_course \o <<"{">> \o c \o <<"}", "{">> \o d \o <<"}">>
Course3(c, d, t) == Course2(c, d) \o <<"{">> \o t \o <<"}">>

BodyCat == { <<>>, <<"Q">>, <<" ", "x", " ">>, <<"%", "n">>, <<"a", "\f", "b">> }

SolutionCat == { <<>>, <<"%", "c">>, <<" ", "S", " ">> }

CriteriaCat ==
  { <<>>, <<"%", "c">>,
    Criterion(<<" ", "D", " ">>, <<" ", "2", " ">>),
    Criterion(<<"E">>, <<"-", "1">>),
    Criterion(<<"D">>, <<"x">>),
    Criterion(<<"D">>, <<>>) \o <<"{", "1", "}">>,
    <<"a", "\\", "b">> }

CoursesCat ==
  { <<>>, <<"%", "c">>,
    Course3(<<"A">>, Easy, <<"X">>),
    Course3(<<" ", "A", " ">>, <<" ", "H", "A", "R", "D", " ">>, <<" ">>),
    Course3(<<"B">>, <<"M", "e", "d", "i", "u", "m">>, <<" ", "Y", " ">>),
    Course2(<<"A">>, Easy),
    Course3(<<"B">>, <<" ", "B", "o", "g", "u", "s", " ">>, <<>>),
    <<"x", "\\", "y">> }

\* The text of a template: every line followed by a newline.
RECURSIVE Text(_)
Text(ls) == IF ls = <<>> THEN <<>> ELSE Head(ls) \o <<"\n">> \o Text(Tail(ls))

Template(withBody, b, s, c, k) ==
  Text( (IF withBody THEN <<BEGIN_BODY>> \o b \o <<END_BODY>> ELSE <<>>)
        \o <<BEGIN_SOLUTION>> \o s \o <<END_SOLUTION>>
        \o <<BEGIN_CRITERIA>> \o c \o <<END_CRITERIA>>
        \o <<BEGIN_COURSES>> \o k \o <<END_COURSES>> )

\* The format the BadCourseLine message gives as expected,
\* "\course{course_code}{difficulty}", with its two placeholders filled in.
ExpectedCourseFormat(course_code, difficulty) == Course2(course_code, difficulty)

(***************************************************************************)
(* State                                                                   *)
(***************************************************************************)
VARIABLES
  content,         \* the argument of parse_template
  pc,              \* position in parse_template
  lines,           \* content.splitlines()
  i,               \* index of the line the scan loop takes next
  state,           \* the scan state
  body_lines, solution_lines, criteria_lines, courses_lines,
  body, solution_text,
  j,               \* index of the line the criteria / courses loop takes next
  criteria, courses,
  outcome,         \* the ParsedTemplate returned or the TemplateParseError raised
  ipc,             \* position in item_add
  tmp,             \* the text of the temporary .tex file, None when there is no such file
  items_dir,       \* the directory the items are stored in (--items-dir)
  new_item,        \* the Item item_add constructs
  exit,            \* how the command ended: exit code and message
  trail,           \* the steps item_add has taken so far, in order
  dirs,            \* the directories that exist
  files,           \* the files that exist: directory, name, text
  saved,           \* the Items handed to save_item so far, in order
  loaded,          \* what the last load_item / load_all_items call returned
  path,            \* the executables shutil.which finds
  VISUAL, EDITOR,  \* the two environment variables, None when unset
  cmd,             \* what find_editor returned or raised
  history          \* the parse_template calls that have ended: their lines and outcomes, in order

parseVars == <<content, pc, lines, i, state, body_lines, solution_lines, criteria_lines,
               courses_lines, body, solution_text, j, criteria, courses, outcome>>
addVars   == <<ipc, tmp, items_dir, new_item, exit, trail>>
fsVars    == <<dirs, files>>
storeVars == <<saved, loaded>>
edVars    == <<path, VISUAL, EDITOR, cmd>>
callVars  == <<history>>

vars == <<parseVars, addVars, fsVars, storeVars, edVars, callVars>>

Pending == [kind |-> "pending"]

\* The parts of the state a specification does not use stay at these values.
AddIdle ==
  /\ ipc = "idle"
  /\ tmp = None
  /\ items_dir = <<>>
  /\ new_item = None
  /\ exit = Pending
  /\ trail = <<>>

FsIdle == dirs = {} /\ files = {}

\* No load call made yet.
NoLoad == [op |-> "none", name |-> <<>>, result |-> Pending]

StoreIdle == saved = <<>> /\ loaded = NoLoad

EdIdle == path = {} /\ VISUAL = None /\ EDITOR = None /\ cmd = Pending

Init ==
  /\ \E nb \in 0..MaxContent :
     \E ns \in 0..(MaxContent - nb) :
     \E nc \in 0..(MaxContent - nb - ns) :
     \E nk \in 0..(MaxContent - nb - ns - nc) :
     \E b \in [1..nb -> BodyCat], s \in [1..ns -> SolutionCat],
        c \in [1..nc -> CriteriaCat], k \in [1..nk -> CoursesCat], withBody \in BOOLEAN :
       /\ withBody \/ nb = 0
       /\ content = Template(withBody, b, s, c, k)
  /\ pc = "call"
  /\ lines = <<>>
  /\ i = 1
  /\ state = "OUTSIDE"
  /\ body_lines = <<>>
  /\ solution_lines = <<>>
  /\ criteria_lines = <<>>
  /\ courses_lines = <<>>
  /\ body = <<>>
  /\ solution_text = None
  /\ j = 1
  /\ criteria = <<>>
  /\ courses = <<>>
  /\ outcome = Pending
  /\ history = <<>>
  /\ AddIdle /\ FsIdle /\ StoreIdle /\ EdIdle

(***************************************************************************)
(* Actions                                                                 *)
(***************************************************************************)
\* The call entered with the four lists kept from the call before, as
\* lists created once at module level would be.
StartKeepingLists ==
  /\ pc = "call"
  /\ lines' = SplitLines(content)
  /\ i' = 1
  /\ state' = "OUTSIDE"
  /\ pc' = IF SplitLines(content) = <<>> THEN "body" ELSE "scan"
  /\ UNCHANGED <<body_lines, solution_lines, criteria_lines, courses_lines>>
  /\ UNCHANGED <<content, body, solution_text, j, criteria, courses, outcome>>
  /\ UNCHANGED <<addVars, fsVars, storeVars, edVars, callVars>>

\* Entry: the locals initialised and the text split into lines.
Start ==
  /\ pc = "call"
  /\ lines' = SplitLines(content)
  /\ i' = 1
  /\ state' = "OUTSIDE"
  /\ body_lines' = <<>>
  /\ solution_lines' = <<>>
  /\ criteria_lines' = <<>>
  /\ courses_lines' = <<>>
  /\ pc' = IF SplitLines(content) = <<>> THEN "body" ELSE "scan"
  /\ UNCHANGED <<content, body, solution_text, j, criteria, courses, outcome>>
  /\ UNCHANGED <<addVars, fsVars, storeVars, edVars, callVars>>

\* One pass of the scan loop in which a begin marker empties the list of
\* its region ("body_lines = []" and so on in the marker branches).
ScanLineResetting ==
  /\ pc = "scan"
  /\ i <= Len(lines)
  /\ LET line     == lines[i]
         stripped == Strip(line)
     IN  /\ state' = NextSection(state, stripped)
         /\ body_lines' = IF stripped = BEGIN_BODY THEN <<>>
                          ELSE IF ~IsMarker(stripped) /\ state = "IN_BODY"
                          THEN Append(body_lines, BodyCapture(line, stripped)) ELSE body_lines
         /\ solution_lines' = IF stripped = BEGIN_SOLUTION THEN <<>>
                              ELSE IF ~IsMarker(stripped) /\ state = "IN_SOLUTION" /\ IsContent(stripped)
                              THEN Append(solution_lines, stripped) ELSE solution_lines
         /\ criteria_lines' = IF stripped = BEGIN_CRITERIA THEN <<>>
                              ELSE IF ~IsMarker(stripped) /\ state = "IN_CRITERIA" /\ IsContent(stripped)
                              THEN Append(criteria_lines, stripped) ELSE criteria_lines
         /\ courses_lines' = IF stripped = BEGIN_COURSES THEN <<>>
                             ELSE IF ~IsMarker(stripped) /\ state = "IN_COURSES" /\ IsContent(stripped)
                             THEN Append(courses_lines, stripped) ELSE courses_lines
  /\ i' = i + 1
  /\ pc' = IF i = Len(lines) THEN "body" ELSE "scan"
  /\ UNCHANGED <<content, lines, body, solution_text, j, criteria, courses, outcome>>
  /\ UNCHANGED <<addVars, fsVars, storeVars, edVars, callVars>>

\* One pass of the scan loop that takes the regions in the order of the
\* template only: a begin marker is passed over once the begin marker of a
\* region that comes later in the template has been taken.
ScanLineInTemplateOrder ==
  /\ pc = "scan"
  /\ i <= Len(lines)
  /\ LET line     == lines[i]
         stripped == Strip(line)
         order    == <<BEGIN_BODY, BEGIN_SOLUTION, BEGIN_CRITERIA, BEGIN_COURSES>>
         late     == \E m \in 1..4, n \in 1..4, k \in 1..(i - 1) :
                       stripped = order[m] /\ m < n /\ Strip(lines[k]) = order[n]
     IN  /\ state' = IF late THEN state ELSE NextSection(state, stripped)
         /\ body_lines' = IF ~IsMarker(stripped) /\ state = "IN_BODY"
                          THEN Append(body_lines, BodyCapture(line, stripped)) ELSE body_lines
         /\ solution_lines' = IF ~IsMarker(stripped) /\ state = "IN_SOLUTION" /\ IsContent(stripped)
                              THEN Append(solution_lines, stripped) ELSE solution_lines
         /\ criteria_lines' = IF ~IsMarker(stripped) /\ state = "IN_CRITERIA" /\ IsContent(stripped)
                              THEN Append(criteria_lines, stripped) ELSE criteria_lines
         /\ courses_lines' = IF ~IsMarker(stripped) /\ state = "IN_COURSES" /\ IsContent(stripped)
                             THEN Append(courses_lines, stripped) ELSE courses_lines
  /\ i' = i + 1
  /\ pc' = IF i = Len(lines) THEN "body" ELSE "scan"
  /\ UNCHANGED <<content, lines, body, solution_text, j, criteria, courses, outcome>>
  /\ UNCHANGED <<addVars, fsVars, storeVars, edVars, callVars>>

\* One pass of the loop when a line met outside every region is taken for
\* a line of the CRITERIA region.
ScanLineCapturingOutside ==
  /\ pc = "scan"
  /\ i <= Len(lines)
  /\ LET line     == lines[i]
         stripped == Strip(line)
     IN  /\ state' = NextSection(state, stripped)
         /\ body_lines' = IF ~IsMarker(stripped) /\ state = "IN_BODY"
                          THEN Append(body_lines, BodyCapture(line, stripped)) ELSE body_lines
         /\ solution_lines' = IF ~IsMarker(stripped) /\ state = "IN_SOLUTION" /\ IsContent(stripped)
                              THEN Append(solution_lines, stripped) ELSE solution_lines
         /\ criteria_lines' = IF /\ ~IsMarker(stripped)
                                 /\ state \in {"IN_CRITERIA", "OUTSIDE"}
                                 /\ IsContent(stripped)
                              THEN Append(criteria_lines, stripped) ELSE criteria_lines
         /\ courses_lines' = IF ~IsMarker(stripped) /\ state = "IN_COURSES" /\ IsContent(stripped)
                             THEN Append(courses_lines, stripped) ELSE courses_lines
  /\ i' = i + 1
  /\ pc' = IF i = Len(lines) THEN "body" ELSE "scan"
  /\ UNCHANGED <<content, lines, body, solution_text, j, criteria, courses, outcome>>
  /\ UNCHANGED <<addVars, fsVars, storeVars, edVars, callVars>>

\* One pass of "for line in content.splitlines()".
ScanLine ==
  /\ pc = "scan"
  /\ i <= Len(lines)
  /\ LET line     == lines[i]
         stripped == Strip(line)
     IN  /\ state' = NextSection(state, stripped)
         /\ body_lines' = IF ~IsMarker(stripped) /\ state = "IN_BODY"
                          THEN Append(body_lines, BodyCapture(line, stripped)) ELSE body_lines
         /\ solution_lines' = IF ~IsMarker(stripped) /\ state = "IN_SOLUTION" /\ IsContent(stripped)
                              THEN Append(solution_lines, stripped) ELSE solution_lines
         /\ criteria_lines' = IF ~IsMarker(stripped) /\ state = "IN_CRITERIA" /\ IsContent(stripped)
                              THEN Append(criteria_lines, stripped) ELSE criteria_lines
         /\ courses_lines' = IF ~IsMarker(stripped) /\ state = "IN_COURSES" /\ IsContent(stripped)
                             THEN Append(courses_lines, stripped) ELSE courses_lines
  /\ i' = i + 1
  /\ pc' = IF i = Len(lines) THEN "body" ELSE "scan"
  /\ UNCHANGED <<content, lines, body, solution_text, j, criteria, courses, outcome>>
  /\ UNCHANGED <<addVars, fsVars, storeVars, edVars, callVars>>

\* The courses loop entered ahead of the criteria loop whenever there are
\* course lines.
CriteriaLoopAfterCourses(n) ==
  IF courses_lines # <<>> THEN "courses"
  ELSE IF n <= Len(criteria_lines) THEN "criteria" ELSE "return"

\* Where control goes when the criteria loop starts at line n of its list.
CriteriaLoop(n) ==
  IF n <= Len(criteria_lines) THEN "criteria"
  ELSE IF courses_lines = <<>> THEN "return" ELSE "courses"

\* The body joined, trimmed and checked; the solution text built.
CheckBody ==
  /\ pc = "body"
  /\ body' = BodyText(body_lines)
  /\ IF BodyText(body_lines) = <<>>
     THEN /\ outcome' = TemplateParseError(EmptyBody, <<>>)
          /\ pc' = "done"
          /\ UNCHANGED solution_text
     ELSE /\ solution_text' = SolutionText(solution_lines)
          /\ pc' = CriteriaLoop(1)
          /\ UNCHANGED outcome
  /\ j' = 1
  /\ criteria' = <<>>
  /\ courses' = <<>>
  /\ UNCHANGED <<content, lines, i, state, body_lines, solution_lines, criteria_lines,
                 courses_lines>>
  /\ UNCHANGED <<addVars, fsVars, storeVars, edVars, callVars>>

\* One pass of "for raw in criteria_lines".
CriterionStep ==
  /\ pc = "criteria"
  /\ j <= Len(criteria_lines)
  /\ LET r == CriterionOf(criteria_lines[j])
     IN  IF r.kind = "error"
         THEN /\ outcome' = r
              /\ pc' = "done"
              /\ UNCHANGED <<criteria, j>>
         ELSE /\ criteria' = CriteriaAppend(criteria, r.val)
              /\ pc' = CriteriaLoop(j + 1)
              /\ j' = IF j = Len(criteria_lines) THEN 1 ELSE j + 1
              /\ UNCHANGED outcome
  /\ UNCHANGED <<content, lines, i, state, body_lines, solution_lines, criteria_lines,
                 courses_lines, body, solution_text, courses>>
  /\ UNCHANGED <<addVars, fsVars, storeVars, edVars, callVars>>

\* One pass of "for raw in courses_lines".
CourseStep ==
  /\ pc = "courses"
  /\ j <= Len(courses_lines)
  /\ LET r == CourseOf(courses_lines[j])
     IN  IF r.kind = "error"
         THEN /\ outcome' = r
              /\ pc' = "done"
              /\ UNCHANGED <<courses, j>>
         ELSE /\ courses' = CoursesSet(courses, r.val.code, r.val.assignment)
              /\ pc' = IF j = Len(courses_lines) THEN "return" ELSE "courses"
              /\ j' = j + 1
              /\ UNCHANGED outcome
  /\ UNCHANGED <<content, lines, i, state, body_lines, solution_lines, criteria_lines,
                 courses_lines, body, solution_text, criteria>>
  /\ UNCHANGED <<addVars, fsVars, storeVars, edVars, callVars>>

\* return ParsedTemplate(...)
Return ==
  /\ pc = "return"
  /\ outcome' = Parsed(ParsedTemplate(body, criteria, solution_text, courses))
  /\ pc' = "done"
  /\ UNCHANGED <<content, lines, i, state, body_lines, solution_lines, criteria_lines,
                 courses_lines, body, solution_text, j, criteria, courses>>
  /\ UNCHANGED <<addVars, fsVars, storeVars, edVars, callVars>>

Next == Start \/ ScanLine \/ CheckBody \/ CriterionStep \/ CourseStep \/ Return

Spec == Init /\ [][Next]_vars

(***************************************************************************)
(* Vocabulary of the properties, stated on the lines of the input text     *)
(***************************************************************************)
Done == pc = "done"
Succeeded == Done /\ outcome.kind = "ok"
Failed == Done /\ outcome.kind = "error"

MarkerAt(k) == IsMarker(Strip(lines[k]))

\* Line k is a non-marker line and the last marker line before it is `begin`.
InRegion(k, begin) ==
  /\ ~MarkerAt(k)
  /\ \E m \in 1..(k - 1) :
       /\ Strip(lines[m]) = begin
       /\ \A n \in (m + 1)..(k - 1) : ~MarkerAt(n)

RegionIdx(begin) == { k \in 1..Len(lines) : InRegion(k, begin) }

\* The lines of a region that are neither blank nor comments.
ContentIdx(begin) ==
  { k \in RegionIdx(begin) :
      \E n \in 1..Len(lines[k]) :
        /\ lines[k][n] \notin Whitespace
        /\ \A m \in 1..(n - 1) : lines[k][m] \in Whitespace
        /\ lines[k][n] # "%" }

\* The members of a set of line numbers in source order.
InOrder(S) ==
  [n \in 1..Cardinality(S) |-> CHOOSE k \in S : Cardinality({x \in S : x < k}) = n - 1]

\* t is s without its leading and trailing whitespace, nothing else changed.
IsTrimOf(t, s) ==
  \E a \in 0..Len(s) :
    /\ a + Len(t) <= Len(s)
    /\ SubSeq(s, a + 1, a + Len(t)) = t
    /\ \A n \in 1..a : s[n] \in Whitespace
    /\ \A n \in (a + Len(t) + 1)..Len(s) : s[n] \in Whitespace
    /\ t # <<>> => (t[1] \notin Whitespace /\ t[Len(t)] \notin Whitespace)

\* The lines of the BODY region, untrimmed, joined by newline.
BodyRegionText == JoinNL([n \in 1..Cardinality(RegionIdx(BEGIN_BODY)) |->
                            lines[InOrder(RegionIdx(BEGIN_BODY))[n]]])

BodyRegionBlank == \A n \in 1..Len(BodyRegionText) : BodyRegionText[n] \in Whitespace

(***************************************************************************)
(* C1                                                                      *)
(***************************************************************************)
\* C1 as stated: whenever the captured BODY content is non-empty after
\* trimming, the call returns, and the body returned is the BODY region's
\* lines joined by newline with only the outer whitespace removed.
C1_BodyReturnedWheneverNonEmpty ==
  (Done /\ ~BodyRegionBlank) =>
    (outcome.kind = "ok" /\ IsTrimOf(outcome.val.body, BodyRegionText))

\* C1 amended: every parse that returns has a non-empty body equal to the
\* BODY region's lines (blank and comment lines included, each untrimmed)
\* joined by newline with only the outer whitespace removed.
C1_BodyOfSuccessfulParse ==
  Succeeded =>
    /\ ~BodyRegionBlank
    /\ outcome.val.body # <<>>
    /\ IsTrimOf(outcome.val.body, BodyRegionText)

\* A parse returned a body holding an interior blank line and an indented line.
C1_Witness ==
  /\ Succeeded
  /\ \E n \in 2..(Len(outcome.val.body) - 1) :
       /\ outcome.val.body[n] = "\n"
       /\ outcome.val.body[n + 1] \in {"\n", " "}

(***************************************************************************)
(* C2                                                                      *)
(***************************************************************************)
\* C2: an input whose BODY content is empty or whitespace-only, or that has
\* no BODY region, fails with the EmptyBody error whatever the other
\* regions hold.
C2_EmptyBodyAlwaysFails ==
  (Done /\ BodyRegionBlank) => outcome = TemplateParseError(EmptyBody, <<>>)

\* EmptyBody was raised on an input whose CRITERIA and COURSES regions hold
\* a malformed line each, the BODY region being whitespace-only.
C2_Witness ==
  /\ Done
  /\ outcome = TemplateParseError(EmptyBody, <<>>)
  /\ RegionIdx(BEGIN_BODY) # {}
  /\ \E k \in ContentIdx(BEGIN_CRITERIA) : CriterionOf(Strip(lines[k])).kind = "error"
  /\ \E k \in ContentIdx(BEGIN_COURSES) : CourseOf(Strip(lines[k])).kind = "error"

\* EmptyBody was raised on an input with no BODY region at all.
C2_WitnessNoRegion ==
  Done /\ outcome = TemplateParseError(EmptyBody, <<>>) /\ RegionIdx(BEGIN_BODY) = {}

(***************************************************************************)
(* Reading a line as a \criterion or \course invocation, by the grammar    *)
(***************************************************************************)
NoBrace(t) == ~Contains(t, "}")

IsBlank(t) == \A n \in 1..Len(t) : t[n] \in Whitespace

\* Characters m..n of s, empty when the range does not lie within s.
Slice(s, m, n) == IF m >= 1 /\ m <= n /\ n <= Len(s) THEN SubSeq(s, m, n) ELSE <<>>

\* The pairs <<D, P>> with L = \criterion{D}{P}: one pair or none.
CriterionArgs(L) ==
  LET o == Len(W_criterion) + 3
  IN  { dp \in { <<Slice(L, o, o + a - 1), Slice(L, o + a + 2, Len(L) - 1)>> :
                   a \in 0..(Len(L) - o + 1) } :
          L = Criterion(dp[1], dp[2]) /\ NoBrace(dp[1]) /\ NoBrace(dp[2]) }

\* The triples <<C, Diff, T>> with L = \course{C}{Diff}{T}: one triple or none.
CourseArgs(L) ==
  LET o == Len(W_course) + 3
  IN  { cdt \in { <<Slice(L, o, o + a - 1), Slice(L, o + a + 2, o + a + 1 + b),
                    Slice(L, o + a + b + 4, Len(L) - 1)>> :
                    a \in 0..(Len(L) - o + 1), b \in 0..(Len(L) - o + 1) } :
          /\ L = Course3(cdt[1], cdt[2], cdt[3])
          /\ NoBrace(cdt[1]) /\ NoBrace(cdt[2]) /\ NoBrace(cdt[3]) }

\* L is the two-argument legacy form \course{C}{Diff}.
IsLegacyCourse(L) ==
  LET o == Len(W_course) + 3
  IN  \E a \in 0..(Len(L) - o + 1) :
        LET C == Slice(L, o, o + a - 1)
            D == Slice(L, o + a + 2, Len(L) - 1)
        IN  L = Course2(C, D) /\ NoBrace(C) /\ NoBrace(D)

\* The captured (trimmed) text of source line k.
Captured(k) == Strip(lines[k])

CriteriaIdx == ContentIdx(BEGIN_CRITERIA)
CoursesIdx == ContentIdx(BEGIN_COURSES)

OffendingCriterion(k) ==
  \/ CriterionArgs(Captured(k)) = {}
  \/ \E dp \in CriterionArgs(Captured(k)) : ~IsInt(Strip(dp[2]))

OffendingCourse(k) ==
  \/ CourseArgs(Captured(k)) = {}
  \/ \E cdt \in CourseArgs(Captured(k)) : Lower(Strip(cdt[2])) \notin Difficulty

FirstOffendingCriterion(k) ==
  k \in CriteriaIdx /\ OffendingCriterion(k)
    /\ \A m \in CriteriaIdx : m < k => ~OffendingCriterion(m)

FirstOffendingCourse(k) ==
  k \in CoursesIdx /\ OffendingCourse(k)
    /\ \A m \in CoursesIdx : m < k => ~OffendingCourse(m)

CriteriaValid == \A k \in CriteriaIdx : ~OffendingCriterion(k)

(***************************************************************************)
(* C3                                                                      *)
(***************************************************************************)
\* C3: on every successful parse the criteria list has one entry per
\* non-blank, non-comment line of the CRITERIA region, in source order; the
\* entry of \criterion{D}{P} has description D trimmed and points the
\* integer value of P trimmed.
C3_CriteriaInSourceOrder ==
  Succeeded =>
    LET idx == InOrder(CriteriaIdx)
        cs  == outcome.val.criteria
    IN  /\ Len(cs) = Len(idx)
        /\ \A n \in 1..Len(idx) :
             \E dp \in CriterionArgs(Captured(idx[n])) :
               /\ IsTrimOf(cs[n].description, dp[1])
               /\ IsInt(Strip(dp[2]))
               /\ cs[n].points = IntVal(Strip(dp[2]))

\* A parse returned two criteria that differ, the first one with negative points.
C3_Witness ==
  /\ Succeeded
  /\ Len(outcome.val.criteria) = 2
  /\ outcome.val.criteria[1] # outcome.val.criteria[2]
  /\ outcome.val.criteria[1].points < 0

\* A parse returned one criterion from a CRITERIA region that also holds a
\* blank or comment line.
C3_WitnessSkipped ==
  /\ Succeeded
  /\ Len(outcome.val.criteria) = 1
  /\ RegionIdx(BEGIN_CRITERIA) # CriteriaIdx

(***************************************************************************)
(* C4                                                                      *)
(***************************************************************************)
\* C4 as stated: with a non-empty body, every CRITERIA line that does not
\* match makes the parse fail with BadCriterionLine citing that line, and
\* every matching line with non-integer points makes it fail with BadPoints
\* citing that value.
C4_EveryOffendingCriterionReported ==
  (Done /\ ~BodyRegionBlank) =>
    \A k \in CriteriaIdx :
      /\ CriterionArgs(Captured(k)) = {} =>
           outcome = TemplateParseError(BadCriterionLine, <<PyRepr(Captured(k))>>)
      /\ \A dp \in CriterionArgs(Captured(k)) :
           ~IsInt(Strip(dp[2])) =>
             outcome = TemplateParseError(BadPoints, <<PyRepr(Strip(dp[2]))>>)

\* C4 amended: with a non-empty body, any offending CRITERIA line makes the
\* parse fail, and the error is the one of the first offending line in
\* source order: BadCriterionLine citing that line when it does not match,
\* BadPoints citing the points value when it matches with non-integer points.
C4_FirstOffendingCriterionReported ==
  (Done /\ ~BodyRegionBlank) =>
    /\ ~CriteriaValid => outcome.kind = "error"
    /\ \A k \in CriteriaIdx :
         FirstOffendingCriterion(k) =>
           /\ CriterionArgs(Captured(k)) = {} =>
                outcome = TemplateParseError(BadCriterionLine, <<PyRepr(Captured(k))>>)
           /\ \A dp \in CriterionArgs(Captured(k)) :
                ~IsInt(Strip(dp[2])) =>
                  outcome = TemplateParseError(BadPoints, <<PyRepr(Strip(dp[2]))>>)

\* BadPoints was raised for the first offending line of a CRITERIA region
\* that holds a second criterion line.
C4_Witness ==
  /\ Done /\ ~BodyRegionBlank
  /\ outcome.kind = "error" /\ outcome.fmt = BadPoints
  /\ \E k \in CriteriaIdx :
       /\ FirstOffendingCriterion(k)
       /\ \E m \in CriteriaIdx : m # k

\* BadCriterionLine was raised for a non-matching line.
C4_WitnessBadLine ==
  /\ Done /\ ~BodyRegionBlank
  /\ outcome.kind = "error" /\ outcome.fmt = BadCriterionLine
  /\ \E k \in CriteriaIdx : FirstOffendingCriterion(k) /\ CriterionArgs(Captured(k)) = {}

(***************************************************************************)
(* C5                                                                      *)
(***************************************************************************)
\* The entry e is what the course line with arguments <<C, Diff, T>> asks
\* for: the canonical difficulty, and T trimmed or absent when T is blank.
EntryOf(e, cdt) ==
  /\ \E d \in Difficulty : Lower(Strip(cdt[2])) = d /\ e.difficulty = d
  /\ IF IsBlank(cdt[3]) THEN e.topic = None
     ELSE ~e.topic.isNone /\ IsTrimOf(e.topic.val, cdt[3])

\* The trimmed course code of source line k.
CodeAt(k) == Strip((CHOOSE cdt \in CourseArgs(Captured(k)) : TRUE)[1])

\* C5 as stated: on every successful parse, every valid course line
\* \course{C}{Diff}{T} has its entry under key C in the output mapping.
C5_EveryCourseLineUnderItsCode ==
  Succeeded =>
    \A k \in CoursesIdx :
      \A cdt \in CourseArgs(Captured(k)) :
        Lower(Strip(cdt[2])) \in Difficulty =>
          /\ cdt[1] \in DOMAIN outcome.val.courses
          /\ EntryOf(outcome.val.courses[cdt[1]], cdt)

\* C5 amended: on every successful parse, every valid course line that is
\* the last one for its trimmed code has its entry under key C trimmed.
C5_LastCourseLineUnderTrimmedCode ==
  Succeeded =>
    \A k \in CoursesIdx :
      \A cdt \in CourseArgs(Captured(k)) :
        (/\ Lower(Strip(cdt[2])) \in Difficulty
         /\ \A m \in CoursesIdx : m > k => CodeAt(m) # Strip(cdt[1])) =>
          \E code \in DOMAIN outcome.val.courses :
            /\ IsTrimOf(code, cdt[1])
            /\ EntryOf(outcome.val.courses[code], cdt)

\* A parse returned a mapping with a topic and a difficulty typed in mixed
\* case (\course{B}{Medium}{ Y }).
C5_Witness ==
  /\ Succeeded
  /\ \E code \in DOMAIN outcome.val.courses :
       /\ outcome.val.courses[code].difficulty = Medium
       /\ ~outcome.val.courses[code].topic.isNone

\* A parse returned a mapping whose entry has no topic, from a line with a
\* padded code and a blank topic (\course{ A }{ HARD }{ }).
C5_WitnessNoTopic ==
  /\ Succeeded
  /\ \E code \in DOMAIN outcome.val.courses :
       outcome.val.courses[code] = [difficulty |-> Hard, topic |-> None]

(***************************************************************************)
(* C6                                                                      *)
(***************************************************************************)
\* Source lines k < m of the COURSES region carry the same course code.
SameCode(k, m) == k \in CoursesIdx /\ m \in CoursesIdx /\ k < m /\ CodeAt(k) = CodeAt(m)

CoursesValid == \A k \in CoursesIdx : ~OffendingCourse(k)

\* C6: when several valid COURSES lines carry one course code, no error is
\* raised on their account, and the output mapping has that code once, with
\* the difficulty and topic of the last such line.
C6_LastWriteWins ==
  (Done /\ CoursesValid /\ \E k, m \in CoursesIdx : SameCode(k, m)) =>
    /\ outcome.kind = "error" => outcome.fmt \in {EmptyBody, BadCriterionLine, BadPoints}
    /\ outcome.kind = "ok" =>
         /\ DOMAIN outcome.val.courses = { CodeAt(k) : k \in CoursesIdx }
         /\ \A k, m \in CoursesIdx :
              (SameCode(k, m) /\ \A n \in CoursesIdx : n > m => CodeAt(n) # CodeAt(m)) =>
                \E cdt \in CourseArgs(Captured(m)) :
                  EntryOf(outcome.val.courses[CodeAt(m)], cdt)

\* A parse returned a one-entry mapping from two lines with the same code
\* and different difficulty.
C6_Witness ==
  /\ Succeeded
  /\ Cardinality(DOMAIN outcome.val.courses) = 1
  /\ \E k, m \in CoursesIdx :
       /\ SameCode(k, m)
       /\ \E x \in CourseArgs(Captured(k)), y \in CourseArgs(Captured(m)) :
            Lower(Strip(x[2])) # Lower(Strip(y[2]))

(***************************************************************************)
(* C7                                                                      *)
(***************************************************************************)
\* C7 as stated: with a non-empty body and valid criteria, every COURSES
\* line in the two-argument legacy form makes the parse fail with
\* BadCourseLine.
C7_EveryLegacyCourseLineIsBadCourseLine ==
  (Done /\ ~BodyRegionBlank /\ CriteriaValid) =>
    \A k \in CoursesIdx :
      IsLegacyCourse(Captured(k)) =>
        (outcome.kind = "error" /\ outcome.fmt = BadCourseLine)

\* C7 amended: with a non-empty body and valid criteria, a COURSES line in
\* the two-argument legacy form always makes the parse fail, and the error
\* is BadCourseLine citing that line when no offending COURSES line comes
\* before it.
C7_FirstLegacyCourseLineIsBadCourseLine ==
  (Done /\ ~BodyRegionBlank /\ CriteriaValid) =>
    \A k \in CoursesIdx :
      IsLegacyCourse(Captured(k)) =>
        /\ outcome.kind = "error"
        /\ FirstOffendingCourse(k) =>
             outcome = TemplateParseError(BadCourseLine, <<PyRepr(Captured(k))>>)

\* BadCourseLine was raised for a legacy line with a valid code and
\* difficulty that follows a valid three-argument course line.
C7_Witness ==
  /\ Done /\ ~BodyRegionBlank /\ CriteriaValid
  /\ outcome.kind = "error" /\ outcome.fmt = BadCourseLine
  /\ \E k, m \in CoursesIdx :
       /\ m < k
       /\ ~OffendingCourse(m)
       /\ IsLegacyCourse(Captured(k))
       /\ outcome.args = <<PyRepr(Captured(k))>>

(***************************************************************************)
(* C8                                                                      *)
(***************************************************************************)
\* The InvalidDifficulty error that names the difficulty and the code of
\* the course line with arguments cdt: the value up to letter case, both
\* trimmed and quoted.
NamesValueAndCode(err, cdt) ==
  /\ err.kind = "error"
  /\ err.fmt = InvalidDifficulty
  /\ Lower(err.args[1]) = Lower(PyRepr(Strip(cdt[2])))
  /\ err.args[2] = PyRepr(Strip(cdt[1]))

C9_ErrorCarriesTextAsWritten ==
  Failed =>
    /\ outcome.fmt = BadCriterionLine =>
         \E k \in CriteriaIdx :
           CriterionArgs(Captured(k)) = {} /\ outcome.args[1] = PyRepr(Captured(k))
    /\ outcome.fmt = BadPoints =>
         \E k \in CriteriaIdx : \E dp \in CriterionArgs(Captured(k)) :
           ~IsInt(Strip(dp[2])) /\ outcome.args[1] = PyRepr(Strip(dp[2]))
    /\ outcome.fmt = BadCourseLine =>
         \E k \in CoursesIdx :
           CourseArgs(Captured(k)) = {} /\ outcome.args[1] = PyRepr(Captured(k))
    /\ outcome.fmt = InvalidDifficulty =>
         \E k \in CoursesIdx : \E cdt \in CourseArgs(Captured(k)) :
           Lower(Strip(cdt[2])) \notin Difficulty /\ outcome.args[1] = PyRepr(Strip(cdt[2]))

(***************************************************************************)
(* C10                                                                     *)
(***************************************************************************)
SolutionIdx == ContentIdx(BEGIN_SOLUTION)

\* The non-blank, non-comment lines of the SOLUTION region, each trimmed,
\* joined by newline.
SolutionRegionText ==
  JoinNL([n \in 1..Cardinality(SolutionIdx) |-> Captured(InOrder(SolutionIdx)[n])])

\* C10: on every successful parse the solution is the non-blank,
\* non-comment SOLUTION lines, each trimmed, joined by newline and trimmed;
\* with no such line it is None, never the empty string.
C10_SolutionOrNone ==
  Succeeded =>
    /\ outcome.val.solution # Some(<<>>)
    /\ IF SolutionIdx = {} THEN outcome.val.solution = None
       ELSE /\ ~outcome.val.solution.isNone
            /\ IsTrimOf(outcome.val.solution.val, SolutionRegionText)

\* A parse returned None for a SOLUTION region that holds only blank and
\* comment lines.
C10_Witness ==
  /\ Succeeded
  /\ outcome.val.solution = None
  /\ Cardinality(RegionIdx(BEGIN_SOLUTION)) >= 2

\* A parse returned a solution text.
C10_WitnessText ==
  Succeeded /\ ~outcome.val.solution.isNone /\ RegionIdx(BEGIN_SOLUTION) # SolutionIdx

(***************************************************************************)
(* models.py: Item and its validation                                      *)
(***************************************************************************)
\* What a call returns, and the pydantic ValidationError naming the field.
Returned(v) == [kind |-> "ok", val |-> v]
ValidationError(loc) == [kind |-> "ValidationError", loc |-> loc]

\* A member of the Difficulty enum, as a value carrying .value.
DifficultyMember(v) == [value |-> v]

\* Validation of one value of the courses mapping against its declared
\* type, Difficulty: an enum member passes, any other object fails.
IsDifficulty(x) == DOMAIN x = {"value"} /\ x.value \in Difficulty

\* id: uuid.uuid4().hex[:8], eight hexadecimal digits.
IdCat ==
  { <<"d","e","a","d","b","e","e","f">>,
    <<"1","2","3","4","5","6","7","8">>,
    <<"0","0","0","0","0","0","1","2">> }

\* Item(id=..., body=..., points=..., courses=..., criteria=..., solution=...):
\* the Item, or the ValidationError of the courses field.
Item(id, b, p, cm, cr, sol) ==
  IF \E c \in DOMAIN cm : ~IsDifficulty(cm[c]) THEN ValidationError("courses")
  ELSE Returned([id |-> id, body |-> b, points |-> p, courses |-> cm,
                 criteria |-> cr, solution |-> sol])

(***************************************************************************)
(* Python values as model_dump(mode="json") builds them and as             *)
(* yaml.safe_load returns them                                             *)
(***************************************************************************)
PyStr(s)   == [t |-> "str", s |-> s]
PyInt(n)   == [t |-> "int", n |-> n]
PyBool(b)  == [t |-> "bool", b |-> b]
PyNone     == [t |-> "none"]
PyDict(kv) == [t |-> "dict", kv |-> kv]    \* kv: the <<key, value>> pairs in order
PyList(el) == [t |-> "list", el |-> el]

\* The words of the file names, commands and documents, as texts.
Word ==
  [ null |-> <<"n","u","l","l">>,
    yaml |-> <<".","y","a","m","l">>,
    codium |-> <<"c","o","d","i","u","m">>,
    code |-> <<"c","o","d","e">>,
    code_insiders |-> <<"c","o","d","e","-","i","n","s","i","d","e","r","s">>,
    subl |-> <<"s","u","b","l">>,
    vi |-> <<"v","i">>,
    new_window |-> <<"-","-","n","e","w","-","w","i","n","d","o","w">>,
    wait |-> <<"-","-","w","a","i","t">>,
    nano |-> <<"n","a","n","o">>,
    emacsclient |-> <<"e","m","a","c","s","c","l","i","e","n","t">> ]

\* The keys of the documents.
Key ==
  [ id |-> <<"i","d">>,
    body |-> <<"b","o","d","y">>,
    points |-> <<"p","o","i","n","t","s">>,
    courses |-> <<"c","o","u","r","s","e","s">>,
    criteria |-> <<"c","r","i","t","e","r","i","a">>,
    solution |-> <<"s","o","l","u","t","i","o","n">>,
    description |-> <<"d","e","s","c","r","i","p","t","i","o","n">>,
    difficulty |-> <<"d","i","f","f","i","c","u","l","t","y">>,
    topic |-> <<"t","o","p","i","c">> ]

\* The keys of a mapping in some fixed order.
KeySeq(S) == CHOOSE q \in [1..Cardinality(S) -> S] : \A k \in S : \E n \in DOMAIN q : q[n] = k

\* Item.model_dump(mode="json") dropping the fields that are None
\* (exclude_none=True).
ModelDumpExcludeNone(item) ==
  PyDict(<< <<PyStr(Key.id), PyStr(item.id)>>,
            <<PyStr(Key.body), PyStr(item.body)>>,
            <<PyStr(Key.points), PyInt(item.points)>>,
            <<PyStr(Key.courses),
              PyDict([n \in 1..Cardinality(DOMAIN item.courses) |->
                        LET c == KeySeq(DOMAIN item.courses)[n]
                        IN  <<PyStr(c), PyStr(item.courses[c].value)>>])>>,
            <<PyStr(Key.criteria),
              PyList([n \in 1..Len(item.criteria) |->
                        PyDict(<< <<PyStr(Key.description), PyStr(item.criteria[n].description)>>,
                                  <<PyStr(Key.points), PyInt(item.criteria[n].points)>> >>)])>> >>
          \o (IF item.solution.isNone THEN <<>>
              ELSE << <<PyStr(Key.solution), PyStr(item.solution.val)>> >>))

\* Item.model_dump(mode="json"): the fields in declaration order, the enum
\* members as their values, None kept.
ModelDump(item) ==
  PyDict(<< <<PyStr(Key.id), PyStr(item.id)>>,
            <<PyStr(Key.body), PyStr(item.body)>>,
            <<PyStr(Key.points), PyInt(item.points)>>,
            <<PyStr(Key.courses),
              PyDict([n \in 1..Cardinality(DOMAIN item.courses) |->
                        LET c == KeySeq(DOMAIN item.courses)[n]
                        IN  <<PyStr(c), PyStr(item.courses[c].value)>>])>>,
            <<PyStr(Key.criteria),
              PyList([n \in 1..Len(item.criteria) |->
                        PyDict(<< <<PyStr(Key.description), PyStr(item.criteria[n].description)>>,
                                  <<PyStr(Key.points), PyInt(item.criteria[n].points)>> >>)])>>,
            <<PyStr(Key.solution),
              IF item.solution.isNone THEN PyNone ELSE PyStr(item.solution.val)>> >>)

(***************************************************************************)
(* yaml.dump and yaml.safe_load: a document as the tree of its nodes, each *)
(* scalar with the style it is written in and its text                     *)
(***************************************************************************)
YamlScalar(style, text) == [y |-> "scalar", style |-> style, text |-> text]
YamlMap(kv) == [y |-> "map", kv |-> kv]
YamlSeq(el) == [y |-> "seq", el |-> el]

\* The resolver's integer pattern, sign apart: 0, a decimal number not
\* starting with 0, or 0 followed by octal digits; underscores allowed
\* after the first digit.
YamlIsDigits(s) ==
  /\ s # <<>>
  /\ IsDigit(s[1])
  /\ \A k \in 2..Len(s) : IsDigit(s[k]) \/ s[k] = "_"
  /\ (s[1] = "0" /\ Len(s) > 1) =>
       \A k \in 2..Len(s) : s[k] = "_" \/ (IsDigit(s[k]) /\ DigitVal(s[k]) <= 7)

YamlIsInt(s) ==
  /\ s # <<>>
  /\ IF Head(s) \in {"+", "-"} THEN YamlIsDigits(Tail(s)) ELSE YamlIsDigits(s)

RECURSIVE BaseVal(_, _, _)
BaseVal(s, base, acc) ==
  IF s = <<>> THEN acc
  ELSE IF Head(s) = "_" THEN BaseVal(Tail(s), base, acc)
  ELSE BaseVal(Tail(s), base, base * acc + DigitVal(Head(s)))

\* construct_yaml_int: base 8 after a leading 0, base 10 otherwise.
YamlIntVal(s) ==
  LET neg == Head(s) = "-"
      d   == IF Head(s) \in {"+", "-"} THEN Tail(s) ELSE s
      v   == IF Head(d) = "0" THEN BaseVal(d, 8, 0) ELSE BaseVal(d, 10, 0)
  IN  IF neg THEN 0 - v ELSE v

\* The value a plain scalar resolves to: the resolver's null and boolean
\* words, its integers, and every other text as a str.
YamlResolve(text) ==
  LET nulls == { <<>>, <<"~">>, Word.null, <<"N","u","l","l">>, <<"N","U","L","L">> }
      true  == { <<"y","e","s">>, <<"Y","e","s">>, <<"Y","E","S">>,
               <<"t","r","u","e">>, <<"T","r","u","e">>, <<"T","R","U","E">>,
               <<"o","n">>, <<"O","n">>, <<"O","N">> }
      false == { <<"n","o">>, <<"N","o">>, <<"N","O">>,
               <<"f","a","l","s","e">>, <<"F","a","l","s","e">>, <<"F","A","L","S","E">>,
               <<"o","f","f">>, <<"O","f","f">>, <<"O","F","F">> }
  IN  IF text \in nulls THEN PyNone
      ELSE IF text \in true THEN PyBool(TRUE)
      ELSE IF text \in false THEN PyBool(FALSE)
      ELSE IF YamlIsInt(text) THEN PyInt(YamlIntVal(text))
      ELSE PyStr(text)

\* str(n) of an int.
RECURSIVE NatText(_)
NatText(n) == IF n < 10 THEN <<Digits[n + 1]>> ELSE NatText(n \div 10) \o <<Digits[(n % 10) + 1]>>

IntText(n) == IF n < 0 THEN <<"-">> \o NatText(0 - n) ELSE NatText(n)

\* The emitter's analysis of a str: characters only a double-quoted scalar
\* can carry, and the characters and positions a plain scalar cannot have.
NeedsDoubleQuotes(s) ==
  \/ \E k \in 1..Len(s) : s[k] \in {"\t", "\r", "\f"}
  \/ \E k \in 1..(Len(s) - 1) : s[k] = " " /\ s[k + 1] = "\n"
  \/ \E k \in 1..(Len(s) - 1) : s[k] = "\n" /\ s[k + 1] = " "

PlainAllowed(s) ==
  /\ s # <<>>
  /\ s[1] \notin Whitespace /\ s[Len(s)] \notin Whitespace
  /\ ~Contains(s, "\n")
  /\ s[1] \notin {"#", ",", "[", "]", "{", "}", "&", "*", "!", "|", ">", "'", "\"", "%", "@"}
  /\ s[1] \in {"-", "?", ":"} => (Len(s) > 1 /\ s[2] \notin Whitespace)
  /\ \A k \in 2..Len(s) :
       /\ s[k] = "#" => s[k - 1] \notin Whitespace
       /\ s[k] = ":" => (k < Len(s) /\ s[k + 1] \notin Whitespace)

\* Every str written plain, whatever it reads back as.
StrStyleAlwaysPlain(s) == "plain"

\* choose_scalar_style for a str: plain only when the plain text resolves
\* back to a str, single-quoted otherwise, double-quoted when it must be.
StrStyle(s) ==
  IF NeedsDoubleQuotes(s) THEN "double"
  ELSE IF PlainAllowed(s) /\ YamlResolve(s) = PyStr(s) THEN "plain"
  ELSE "single"

\* yaml.dump(data, allow_unicode=True, sort_keys=False): mappings keep the
\* order of their keys.
RECURSIVE YamlDump(_)
YamlDump(v) ==
  CASE v.t = "str"  -> YamlScalar(StrStyle(v.s), v.s)
    [] v.t = "int"  -> YamlScalar("plain", IntText(v.n))
    [] v.t = "bool" -> YamlScalar("plain", IF v.b THEN <<"t","r","u","e">> ELSE <<"f","a","l","s","e">>)
    [] v.t = "none" -> YamlScalar("plain", Word.null)
    [] v.t = "dict" -> YamlMap([n \in 1..Len(v.kv) |-> <<YamlDump(v.kv[n][1]), YamlDump(v.kv[n][2])>>])
    [] v.t = "list" -> YamlSeq([n \in 1..Len(v.el) |-> YamlDump(v.el[n])])

\* yaml.safe_load: quoted scalars are strs, plain scalars are resolved.
RECURSIVE YamlLoad(_)
YamlLoad(d) ==
  CASE d.y = "scalar" -> IF d.style = "plain" THEN YamlResolve(d.text) ELSE PyStr(d.text)
    [] d.y = "map"    -> PyDict([n \in 1..Len(d.kv) |-> <<YamlLoad(d.kv[n][1]), YamlLoad(d.kv[n][2])>>])
    [] d.y = "seq"    -> PyList([n \in 1..Len(d.el) |-> YamlLoad(d.el[n])])

(***************************************************************************)
(* Item.model_validate: the loaded data checked field by field             *)
(***************************************************************************)
Has(d, key) == \E n \in 1..Len(d.kv) : d.kv[n][1] = PyStr(key)

\* d[key]: the value of the last pair with that key.
Get(d, key) ==
  d.kv[CHOOSE n \in 1..Len(d.kv) :
         /\ d.kv[n][1] = PyStr(key)
         /\ \A m \in (n + 1)..Len(d.kv) : d.kv[m][1] # PyStr(key)][2]

ValidCourses(x) ==
  /\ x.t = "dict"
  /\ \A n \in 1..Len(x.kv) :
       /\ x.kv[n][1].t = "str"
       /\ x.kv[n][2].t = "str"
       /\ x.kv[n][2].s \in Difficulty

ValidCriteria(x) ==
  /\ x.t = "list"
  /\ \A n \in 1..Len(x.el) :
       /\ x.el[n].t = "dict"
       /\ Has(x.el[n], Key.description) /\ Get(x.el[n], Key.description).t = "str"
       /\ Has(x.el[n], Key.points) /\ Get(x.el[n], Key.points).t = "int"

\* Item.model_validate(data); fresh is the id the default factory would give.
ModelValidate(data, fresh) ==
  IF data.t # "dict" THEN ValidationError("Item")
  ELSE IF Has(data, Key.id) /\ Get(data, Key.id).t # "str" THEN ValidationError("id")
  ELSE IF ~Has(data, Key.body) \/ Get(data, Key.body).t # "str" THEN ValidationError("body")
  ELSE IF ~Has(data, Key.points) \/ Get(data, Key.points).t # "int" THEN ValidationError("points")
  ELSE IF Has(data, Key.courses) /\ ~ValidCourses(Get(data, Key.courses)) THEN ValidationError("courses")
  ELSE IF Has(data, Key.criteria) /\ ~ValidCriteria(Get(data, Key.criteria)) THEN ValidationError("criteria")
  ELSE IF Has(data, Key.solution) /\ Get(data, Key.solution).t \notin {"str", "none"}
       THEN ValidationError("solution")
  ELSE Returned(
    [ id       |-> IF Has(data, Key.id) THEN Get(data, Key.id).s ELSE fresh,
      body     |-> Get(data, Key.body).s,
      points   |-> Get(data, Key.points).n,
      courses  |-> IF ~Has(data, Key.courses) THEN <<>>
                   ELSE LET cs == Get(data, Key.courses)
                        IN  [c \in { cs.kv[n][1].s : n \in 1..Len(cs.kv) } |->
                               DifficultyMember(Get(cs, c).s)],
      criteria |-> IF ~Has(data, Key.criteria) THEN <<>>
                   ELSE LET cr == Get(data, Key.criteria)
                        IN  [n \in 1..Len(cr.el) |->
                               [description |-> Get(cr.el[n], Key.description).s,
                                points      |-> Get(cr.el[n], Key.points).n]],
      solution |-> IF ~Has(data, Key.solution) \/ Get(data, Key.solution).t = "none" THEN None
                   ELSE Some(Get(data, Key.solution).s) ])

(***************************************************************************)
(* storage.py: save_item, load_item, load_all_items on the file system     *)
(***************************************************************************)

\* f"{item.id}.yaml"
FileName(id) == id \o Word.yaml

\* directory.mkdir(exist_ok=True): the directory alone.
MkdirOnly(ds, d) == ds \cup {d}

\* directory.mkdir(parents=True, exist_ok=True)
MkdirParents(ds, d) == ds \cup { SubSeq(d, 1, n) : n \in 1..Len(d) }

\* The file written only when no file of that name is there yet.
WriteTextNew(fs, d, name, text) ==
  IF \E f \in fs : f.dir = d /\ f.name = name
  THEN fs
  ELSE fs \cup {[dir |-> d, name |-> name, text |-> text]}

\* path.write_text(text): the file created or replaced.
WriteText(fs, d, name, text) ==
  { f \in fs : ~(f.dir = d /\ f.name = name) } \cup {[dir |-> d, name |-> name, text |-> text]}

ReadText(fs, d, name) == (CHOOSE f \in fs : f.dir = d /\ f.name = name).text

\* The file always named item.yaml.
SavePathFixed(item, directory) == <<"i","t","e","m">> \o Word.yaml

\* directory / f"{item.id}.yaml"
SavePath(item, directory) == FileName(item.id)

\* save_item(item, directory): the directories and files afterwards.
SaveItem(item, directory, ds, fs) ==
  [ dirs  |-> MkdirParents(ds, directory),
    files |-> WriteText(fs, directory, SavePath(item, directory), YamlDump(ModelDump(item))),
    path  |-> SavePath(item, directory) ]

\* load_item(path)
LoadItem(fs, d, name, fresh) == ModelValidate(YamlLoad(ReadText(fs, d, name)), fresh)

\* directory.glob("*.yaml")
Glob(fs, d) ==
  { f.name : f \in { g \in fs :
      /\ g.dir = d
      /\ Len(g.name) >= Len(Word.yaml)
      /\ SubSeq(g.name, Len(g.name) - Len(Word.yaml) + 1, Len(g.name)) = Word.yaml } }

\* The order of the characters of a file name.
CharOrd(c) ==
  LET order == <<".">> \o Digits \o LowerLetters
  IN  CHOOSE k \in 1..Len(order) : order[k] = c

LexLess(a, b) ==
  \E k \in 1..(Len(a) + 1) :
    /\ k <= Len(b)
    /\ \A m \in 1..(k - 1) : a[m] = b[m]
    /\ k > Len(a) \/ CharOrd(a[k]) < CharOrd(b[k])

\* sorted(S)
Sorted(S) ==
  [n \in 1..Cardinality(S) |-> CHOOSE x \in S : Cardinality({ z \in S : LexLess(z, x) }) = n - 1]

\* load_all_items(directory): the list of Items, or the first error raised.
LoadAllItems(fs, d, fresh) ==
  LET names == Sorted(Glob(fs, d))
      r     == [n \in 1..Len(names) |-> LoadItem(fs, d, names[n], fresh)]
  IN  IF \E n \in 1..Len(r) : r[n].kind # "ok"
      THEN r[CHOOSE n \in 1..Len(r) : r[n].kind # "ok" /\ \A m \in 1..(n - 1) : r[m].kind = "ok"]
      ELSE Returned([n \in 1..Len(r) |-> r[n].val])

(***************************************************************************)
(* The storage specification: Items are constructed and saved into one     *)
(* directory, files are loaded back one by one or all together             *)
(***************************************************************************)
DirCat == { <<"items">>, <<"subdir", "items">> }

\* The fields other than id of the Items constructed.
ShapeCat ==
  { [body |-> <<"Q">>, points |-> 0, courses |-> <<>>, criteria |-> <<>>, solution |-> None],
    [body |-> Word.null, points |-> -1,
     courses |-> [c \in {<<"A">>} |-> DifficultyMember(Easy)],
     criteria |-> <<[description |-> <<"E">>, points |-> -1]>>,
     solution |-> Some(<<>>)],
    [body |-> <<" ", "x", " ">>, points |-> 3,
     courses |-> [c \in {<<"A">>, <<"1", "2">>} |->
                    IF c = <<"A">> THEN DifficultyMember(Hard) ELSE DifficultyMember(Medium)],
     criteria |-> <<[description |-> <<"D">>, points |-> 2], [description |-> <<"E">>, points |-> -1]>>,
     solution |-> Some(<<"S">>)],
    [body |-> <<"1", "2">>, points |-> 10,
     courses |-> [c \in {<<>>} |-> DifficultyMember(Medium)],
     criteria |-> <<[description |-> <<>>, points |-> 0]>>,
     solution |-> Some(<<"~">>)],
    [body |-> <<"a", "\f", "b">>, points |-> 7, courses |-> <<>>, criteria |-> <<>>,
     solution |-> Some(<<"Q", "\n", " ", "x">>)],
    [body |-> <<"y", "e", "s">>, points |-> 0, courses |-> <<>>,
     criteria |-> <<[description |-> <<"-", " ", "a", ":", " ", "b">>, points |-> 2]>>,
     solution |-> Some(Word.null)] }

ItemCat ==
  { Item(id, s.body, s.points, s.courses, s.criteria, s.solution).val : id \in IdCat, s \in ShapeCat }

StoreInit ==
  /\ items_dir \in DirCat
  /\ dirs \in { {}, MkdirParents({}, items_dir) }
  /\ files = {}
  /\ StoreIdle
  /\ ipc = "idle" /\ tmp = None /\ new_item = None /\ exit = Pending /\ trail = <<>>
  /\ EdIdle
  /\ content = <<>> /\ pc = "idle" /\ lines = <<>> /\ i = 1 /\ state = "OUTSIDE"
  /\ body_lines = <<>> /\ solution_lines = <<>> /\ criteria_lines = <<>> /\ courses_lines = <<>>
  /\ body = <<>> /\ solution_text = None /\ j = 1 /\ criteria = <<>> /\ courses = <<>>
  /\ outcome = Pending
  /\ history = <<>>

\* item = Item(...); save_item(item, directory)
SaveItemCall ==
  /\ Len(saved) < MaxSaved
  /\ \E item \in ItemCat :
       LET r == SaveItem(item, items_dir, dirs, files)
       IN  /\ dirs' = r.dirs
           /\ files' = r.files
           /\ saved' = Append(saved, item)
  /\ loaded' = NoLoad
  /\ UNCHANGED <<callVars, parseVars, addVars, edVars>>

\* load_item(path) on a file of the directory
LoadItemCall ==
  /\ \E name \in Glob(files, items_dir), fresh \in IdCat :
       loaded' = [op |-> "load_item", name |-> name,
                  result |-> LoadItem(files, items_dir, name, fresh)]
  /\ UNCHANGED <<callVars, parseVars, addVars, edVars, fsVars, saved>>

\* load_all_items(directory)
LoadAllItemsCall ==
  /\ \E fresh \in IdCat :
       loaded' = [op |-> "load_all_items", name |-> <<>>,
                  result |-> LoadAllItems(files, items_dir, fresh)]
  /\ UNCHANGED <<callVars, parseVars, addVars, edVars, fsVars, saved>>

StoreNext == SaveItemCall \/ LoadItemCall \/ LoadAllItemsCall

SpecStore == StoreInit /\ [][StoreNext]_vars

(***************************************************************************)
(* editor.py: find_editor                                                  *)
(***************************************************************************)

GUI_EDITORS == <<Word.codium, Word.code, Word.code_insiders, Word.subl>>

NoEditorFound ==
  "No editor found. Install VS Codium or VS Code, or set the EDITOR or VISUAL environment variable."

ClickException(fmt, args) == [kind |-> "ClickException", fmt |-> fmt, args |-> args]

\* str.split(): the maximal runs of non-whitespace characters, in order.
WordStarts(s) == { k \in 1..Len(s) : s[k] \notin Whitespace /\ (k = 1 \/ s[k - 1] \in Whitespace) }

WordEnd(s, k) ==
  CHOOSE e \in k..Len(s) :
    /\ \A m \in k..e : s[m] \notin Whitespace
    /\ e = Len(s) \/ s[e + 1] \in Whitespace

Split(s) ==
  [n \in 1..Cardinality(WordStarts(s)) |->
     LET k == CHOOSE x \in WordStarts(s) : Cardinality({ z \in WordStarts(s) : z < x }) = n - 1
     IN  SubSeq(s, k, WordEnd(s, k))]

\* os.environ.get(env_var, "").strip()
EnvGet(v) == IF v.isNone THEN <<>> ELSE Strip(v.val)

\* for env_var in ("EDITOR", "VISUAL"): the two variables read the other way round.
EnvCandidatesEditorFirst(visual, editor) == <<editor, visual>>

\* for env_var in ("VISUAL", "EDITOR")
EnvCandidates(visual, editor) == <<visual, editor>>

\* find_editor() where shutil.which finds the names in `which`.
FindEditor(which, visual, editor) ==
  LET gui  == { n \in 1..Len(GUI_EDITORS) : GUI_EDITORS[n] \in which }
      vals == [n \in 1..2 |-> EnvGet(EnvCandidates(visual, editor)[n])]
      env  == { n \in 1..2 : vals[n] # <<>> /\ Split(vals[n])[1] \in which }
  IN  IF gui # {}
      THEN Returned(<<GUI_EDITORS[CHOOSE n \in gui : \A m \in gui : n <= m], Word.new_window, Word.wait>>)
      ELSE IF env # {}
      THEN Returned(Split(vals[CHOOSE n \in env : \A m \in env : n <= m]))
      ELSE IF Word.vi \in which THEN Returned(<<Word.vi>>)
      ELSE ClickException(NoEditorFound, <<>>)

(***************************************************************************)
(* The find_editor specification: the call under every environment         *)
(***************************************************************************)

ExeCat == {Word.codium, Word.code, Word.code_insiders, Word.subl, Word.vi, Word.nano, Word.emacsclient}

EnvCat ==
  { None, Some(<<>>), Some(<<" ", "\t">>), Some(Word.nano),
    Some(<<" ">> \o Word.emacsclient \o <<" ", " ", "-", "t", " ">>),
    Some(<<"n", "o", "p", "e", " ", "-", "x">>) }

EdInit ==
  /\ path \in SUBSET ExeCat
  /\ VISUAL \in EnvCat
  /\ EDITOR \in EnvCat
  /\ cmd = Pending
  /\ AddIdle /\ FsIdle /\ StoreIdle
  /\ content = <<>> /\ pc = "idle" /\ lines = <<>> /\ i = 1 /\ state = "OUTSIDE"
  /\ body_lines = <<>> /\ solution_lines = <<>> /\ criteria_lines = <<>> /\ courses_lines = <<>>
  /\ body = <<>> /\ solution_text = None /\ j = 1 /\ criteria = <<>> /\ courses = <<>>
  /\ outcome = Pending
  /\ history = <<>>

FindEditorCall ==
  /\ cmd = Pending
  /\ cmd' = FindEditor(path, VISUAL, EDITOR)
  /\ UNCHANGED <<callVars, parseVars, addVars, fsVars, storeVars, path, VISUAL, EDITOR>>

EdNext == FindEditorCall

SpecEditor == EdInit /\ [][EdNext]_vars

(***************************************************************************)
(* Texts with the regions in other orders and more than once: a layout is  *)
(* a sequence of regions, each a begin marker, lines, and an end marker    *)
(* when the text closes its regions                                        *)
(***************************************************************************)
Begin(r) ==
  CASE r = "BODY" -> <<BEGIN_BODY>> [] r = "SOLUTION" -> <<BEGIN_SOLUTION>>
    [] r = "CRITERIA" -> <<BEGIN_CRITERIA>> [] r = "COURSES" -> <<BEGIN_COURSES>>
    [] r = "NONE" -> <<>>

End(r) ==
  CASE r = "BODY" -> <<END_BODY>> [] r = "SOLUTION" -> <<END_SOLUTION>>
    [] r = "CRITERIA" -> <<END_CRITERIA>> [] r = "COURSES" -> <<END_COURSES>>
    [] r = "NONE" -> <<>>

\* The lines a region of a layout is filled with.
RegionCat(r) ==
  CASE r = "BODY" -> { <<"Q">>, <<" ", "x", " ">> }
    [] r = "SOLUTION" -> { <<" ", "S", " ">>, <<"%", "c">> }
    [] r = "CRITERIA" -> { Criterion(<<"E">>, <<"-", "1">>),
                           Criterion(<<" ", "D", " ">>, <<" ", "2", " ">>),
                           Criterion(<<"D">>, <<"x">>),
                           <<"a", "\\", "b">> }
    [] r = "COURSES" -> { Course3(<<"A">>, Easy, <<"X">>),
                          Course2(<<"A">>, Easy),
                          Course3(<<"B">>, <<" ", "B", "o", "g", "u", "s", " ">>, <<>>) }
    [] r = "NONE" -> {}

StandardLayout == <<"BODY", "SOLUTION", "CRITERIA", "COURSES">>

LayoutCat ==
  { StandardLayout,
    <<"BODY", "COURSES", "CRITERIA", "NONE">>,
    <<"COURSES", "CRITERIA", "BODY", "NONE">>,
    <<"BODY", "CRITERIA", "CRITERIA", "NONE">>,
    <<"BODY", "COURSES", "COURSES", "NONE">>,
    <<"BODY", "BODY", "NONE", "NONE">>,
    <<"BODY", "SOLUTION", "SOLUTION", "NONE">>,
    <<"CRITERIA", "BODY", "CRITERIA", "COURSES">>,
    <<"BODY", "CRITERIA", "COURSES", "CRITERIA">> }

LayoutText(lay, ends, f1, f2, f3, f4) ==
  LET Block(r, ls) == Begin(r) \o ls \o (IF ends THEN End(r) ELSE <<>>)
  IN  Text(Block(lay[1], f1) \o Block(lay[2], f2) \o Block(lay[3], f3) \o Block(lay[4], f4))

\* The texts of a layout with at most MaxContent lines in its regions.
LayoutTexts(lay, ends) ==
  UNION { UNION { UNION { UNION {
    { LayoutText(lay, ends, f1, f2, f3, f4) :
        f1 \in [1..n1 -> RegionCat(lay[1])], f2 \in [1..n2 -> RegionCat(lay[2])],
        f3 \in [1..n3 -> RegionCat(lay[3])], f4 \in [1..n4 -> RegionCat(lay[4])] } :
    n4 \in 0..(MaxContent - n1 - n2 - n3) } :
    n3 \in 0..(MaxContent - n1 - n2) } :
    n2 \in 0..(MaxContent - n1) } :
    n1 \in 0..MaxContent }

LayoutInit ==
  /\ \E lay \in LayoutCat, ends \in BOOLEAN : content \in LayoutTexts(lay, ends)
  /\ pc = "call"
  /\ lines = <<>>
  /\ i = 1
  /\ state = "OUTSIDE"
  /\ body_lines = <<>>
  /\ solution_lines = <<>>
  /\ criteria_lines = <<>>
  /\ courses_lines = <<>>
  /\ body = <<>>
  /\ solution_text = None
  /\ j = 1
  /\ criteria = <<>>
  /\ courses = <<>>
  /\ outcome = Pending
  /\ history = <<>>
  /\ AddIdle /\ FsIdle /\ StoreIdle /\ EdIdle

LayoutNext == Start \/ ScanLine \/ CheckBody \/ CriterionStep \/ CourseStep \/ Return

SpecLayout == LayoutInit /\ [][LayoutNext]_vars

(***************************************************************************)
(* cli.py: item_add                                                        *)
(***************************************************************************)
\* The template written to the temporary file, line by line.
ITEM_TEMPLATE ==
  Text(<<
    <<"\\","d","o","c","u","m","e","n","t","c","l","a","s","s","[","1","2","p","t","]","{","a","r","t","i","c","l","e","}">>,
    <<"\\","u","s","e","p","a","c","k","a","g","e","[","a","4","p","a","p","e","r",","," ","m","a","r","g","i","n","=","2","c","m","]","{","g","e","o","m","e","t","r","y","}">>,
    <<"\\","u","s","e","p","a","c","k","a","g","e","[","u","t","f","8","]","{","i","n","p","u","t","e","n","c","}">>,
    <<"\\","u","s","e","p","a","c","k","a","g","e","{","a","m","s","m","a","t","h",","," ","a","m","s","s","y","m","b","}">>,
    <<"\\","u","s","e","p","a","c","k","a","g","e","{","p","a","r","s","k","i","p","}">>,
    <<>>,
    <<"%"," ","R","e","n","d","e","r","s"," ","o","n","e"," ","g","r","a","d","i","n","g"," ","c","r","i","t","e","r","i","o","n","."," ","U","s","a","g","e",":"," ","\\","c","r","i","t","e","r","i","o","n","{","d","e","s","c","r","i","p","t","i","o","n","}","{","p","o","i","n","t","s","}">>,
    <<"\\","n","e","w","c","o","m","m","a","n","d","{","\\","c","r","i","t","e","r","i","o","n","}","[","2","]","{","\\","n","o","i","n","d","e","n","t","\\","t","e","x","t","b","u","l","l","e","t","~","#","1","\\","h","f","i","l","l","\\","t","e","x","t","i","t","{","(","#","2","~","p","t","s",")","}","\\","p","a","r","\\","s","m","a","l","l","s","k","i","p","}">>,
    <<>>,
    <<"%"," ","R","e","n","d","e","r","s"," ","o","n","e"," ","c","o","u","r","s","e"," ","a","s","s","i","g","n","m","e","n","t","."," ","U","s","a","g","e",":"," ","\\","c","o","u","r","s","e","{","c","o","d","e","}","{","d","i","f","f","i","c","u","l","t","y","}","{","t","o","p","i","c","}">>,
    <<"\\","n","e","w","c","o","m","m","a","n","d","{","\\","c","o","u","r","s","e","}","[","3","]","{","\\","n","o","i","n","d","e","n","t","\\","t","e","x","t","b","u","l","l","e","t","~","\\","t","e","x","t","t","t","{","#","1","}","\\","q","u","a","d","\\","t","e","x","t","i","t","{","#","2","}","~","\\","t","e","x","t","i","t","{","#","3","}","\\","p","a","r","\\","s","m","a","l","l","s","k","i","p","}">>,
    <<>>,
    <<"\\","b","e","g","i","n","{","d","o","c","u","m","e","n","t","}">>,
    <<>>,
    <<"\\","n","o","i","n","d","e","n","t","\\","t","e","x","t","b","f","{","Q","u","e","s","t","i","o","n","}">>,
    <<"\\","m","e","d","s","k","i","p">>,
    <<>>,
    BEGIN_BODY,
    <<"W","r","i","t","e"," ","y","o","u","r"," ","q","u","e","s","t","i","o","n"," ","b","o","d","y"," ","h","e","r","e"," ","i","n"," ","\\","L","a","T","e","X","{","}",".">>,
    END_BODY,
    <<>>,
    <<"\\","b","i","g","s","k","i","p","\\","h","r","u","l","e","\\","b","i","g","s","k","i","p">>,
    <<>>,
    <<"\\","n","o","i","n","d","e","n","t","\\","t","e","x","t","b","f","{","S","o","l","u","t","i","o","n","}">>,
    <<"\\","m","e","d","s","k","i","p">>,
    <<>>,
    BEGIN_SOLUTION,
    <<"%"," ","W","r","i","t","e"," ","t","h","e"," ","s","o","l","u","t","i","o","n"," ","h","e","r","e"," ","i","n"," ","\\","L","a","T","e","X","{","}","."," ","L","i","n","e","s"," ","s","t","a","r","t","i","n","g"," ","w","i","t","h"," ","%"," ","a","r","e"," ","i","g","n","o","r","e","d",".">>,
    END_SOLUTION,
    <<>>,
    <<"\\","b","i","g","s","k","i","p","\\","h","r","u","l","e","\\","b","i","g","s","k","i","p">>,
    <<>>,
    <<"\\","n","o","i","n","d","e","n","t","\\","t","e","x","t","b","f","{","G","r","a","d","i","n","g"," ","C","r","i","t","e","r","i","a","}">>,
    <<"\\","m","e","d","s","k","i","p">>,
    <<>>,
    BEGIN_CRITERIA,
    <<"%"," ","A","d","d"," ","c","r","i","t","e","r","i","a"," ","u","s","i","n","g"," ","\\","c","r","i","t","e","r","i","o","n","{","d","e","s","c","r","i","p","t","i","o","n","}","{","p","o","i","n","t","s","}",":">>,
    END_CRITERIA,
    <<>>,
    <<"\\","b","i","g","s","k","i","p","\\","h","r","u","l","e","\\","b","i","g","s","k","i","p">>,
    <<>>,
    <<"\\","n","o","i","n","d","e","n","t","\\","t","e","x","t","b","f","{","C","o","u","r","s","e","s","}">>,
    <<"\\","m","e","d","s","k","i","p">>,
    <<>>,
    BEGIN_COURSES,
    <<"%"," ","A","d","d"," ","c","o","u","r","s","e","s"," ","u","s","i","n","g"," ","\\","c","o","u","r","s","e","{","c","o","u","r","s","e","\\","_","c","o","d","e","}","{","d","i","f","f","i","c","u","l","t","y","}","{","t","o","p","i","c","}",":">>,
    <<"%"," ","D","i","f","f","i","c","u","l","t","y",":"," ","e","a","s","y"," ","|"," ","m","e","d","i","u","m"," ","|"," ","h","a","r","d","."," ","T","o","p","i","c"," ","i","s"," ","o","p","t","i","o","n","a","l"," ","(","l","e","a","v","e"," ","\\","{","\\","}"," ","e","m","p","t","y",")",".">>,
    END_COURSES,
    <<>>,
    <<"\\","e","n","d","{","d","o","c","u","m","e","n","t","}">>
  >>)

EditorExited == "Editor exited with code {exc.returncode}."
EditorNotFound == "Editor executable not found: {cmd[0]!r}"
SavedMessage == "Saved: {out_path}"

\* How the command ends: the exit code and what it shows, the exception
\* raised or the message echoed.
Exit(code, out) == [kind |-> "exit", code |-> code, out |-> out]

\* raise click.ClickException("Could not parse the template."): the parse error's text dropped.
ParseFailureGeneric(exc) == ClickException("Could not parse the template.", <<>>)

\* raise click.ClickException(str(exc))
ParseFailure(exc) == ClickException(exc.fmt, exc.args)

RECURSIVE SumPoints(_)
SumPoints(cr) == IF cr = <<>> THEN 0 ELSE Head(cr).points + SumPoints(Tail(cr))

\* points = len(parsed.criteria): the criteria counted, not their points summed.
PointsCount(cr) == Len(cr)

\* points = sum(c.points for c in parsed.criteria)
Points(cr) == SumPoints(cr)

AddInit ==
  /\ ipc = "start"
  /\ tmp = None
  /\ items_dir \in DirCat
  /\ dirs \in { {}, MkdirParents({}, items_dir) }
  /\ files = {}
  /\ new_item = None
  /\ exit = Pending
  /\ trail = <<>>
  /\ StoreIdle
  /\ path \in { {}, {Word.vi} }
  /\ VISUAL = None
  /\ EDITOR = None
  /\ cmd = Pending
  /\ content = <<>> /\ pc = "idle" /\ lines = <<>> /\ i = 1 /\ state = "OUTSIDE"
  /\ body_lines = <<>> /\ solution_lines = <<>> /\ criteria_lines = <<>> /\ courses_lines = <<>>
  /\ body = <<>> /\ solution_text = None /\ j = 1 /\ criteria = <<>> /\ courses = <<>>
  /\ outcome = Pending
  /\ history = <<>>

\* with tempfile.NamedTemporaryFile(..., delete=False) as tmp: tmp.write(ITEM_TEMPLATE)
WriteTemplate ==
  /\ ipc = "start"
  /\ tmp' = Some(ITEM_TEMPLATE)
  /\ trail' = Append(trail, "write")
  /\ ipc' = "find"
  /\ UNCHANGED <<callVars, parseVars, items_dir, new_item, exit, fsVars, storeVars, edVars>>

\* open_editor: cmd = find_editor()
FindEditorStep ==
  /\ ipc = "find"
  /\ cmd' = FindEditor(path, VISUAL, EDITOR)
  /\ IF FindEditor(path, VISUAL, EDITOR).kind = "ok"
     THEN ipc' = "run" /\ UNCHANGED exit
     ELSE ipc' = "finally" /\ exit' = Exit(1, FindEditor(path, VISUAL, EDITOR))
  /\ UNCHANGED <<callVars, parseVars, tmp, items_dir, new_item, trail, fsVars, storeVars, path, VISUAL, EDITOR>>

\* open_editor: subprocess.run(cmd, check=True, shell=True) and its two
\* except clauses. The editor leaves the file as it was or with a text of
\* the standard layout.
RunEditor ==
  /\ ipc = "run"
  /\ trail' = Append(trail, "editor")
  /\ \/ /\ \E t \in {tmp.val} \cup LayoutTexts(StandardLayout, TRUE) : tmp' = Some(t)
        /\ ipc' = "read"
        /\ UNCHANGED exit
     \/ /\ \E rc \in {1, 2} : exit' = Exit(1, ClickException(EditorExited, <<rc>>))
        /\ ipc' = "finally"
        /\ UNCHANGED tmp
     \/ /\ exit' = Exit(1, ClickException(EditorNotFound, <<PyRepr(cmd.val[1])>>))
        /\ ipc' = "finally"
        /\ UNCHANGED tmp
  /\ UNCHANGED <<callVars, parseVars, items_dir, new_item, fsVars, storeVars, edVars>>

\* content = tmp_path.read_text(encoding="utf-8"), then parse_template(content) is entered
ReadBack ==
  /\ ipc = "read"
  /\ content' = tmp.val
  /\ pc' = "call"
  /\ trail' = Append(trail, "read")
  /\ ipc' = "parse"
  /\ UNCHANGED <<lines, i, state, body_lines, solution_lines, criteria_lines, courses_lines,
                 body, solution_text, j, criteria, courses, outcome>>
  /\ UNCHANGED <<callVars, tmp, items_dir, new_item, exit, fsVars, storeVars, edVars>>

\* parse_template has returned or raised: parsed = ..., or the except clause
ParseDone ==
  /\ ipc = "parse"
  /\ pc = "done"
  /\ trail' = Append(trail, "parse")
  /\ exit' = IF outcome.kind = "error" THEN Exit(1, ParseFailure(outcome)) ELSE exit
  /\ ipc' = "finally"
  /\ UNCHANGED <<callVars, parseVars, tmp, items_dir, new_item, fsVars, storeVars, edVars>>

\* tmp_path.unlink(missing_ok=True) as the last statement of the try block,
\* not in a finally clause: the file stays when an exception is in flight.
UnlinkInTry ==
  /\ ipc = "finally"
  /\ tmp' = IF exit = Pending THEN None ELSE tmp
  /\ trail' = IF exit = Pending THEN Append(trail, "unlink") ELSE trail
  /\ ipc' = IF exit = Pending THEN "item" ELSE "end"
  /\ UNCHANGED <<callVars, parseVars, items_dir, new_item, exit, fsVars, storeVars, edVars>>

\* finally: tmp_path.unlink(missing_ok=True); an exception in flight goes on
Finally ==
  /\ ipc = "finally"
  /\ tmp' = None
  /\ trail' = Append(trail, "unlink")
  /\ ipc' = IF exit = Pending THEN "item" ELSE "end"
  /\ UNCHANGED <<callVars, parseVars, items_dir, new_item, exit, fsVars, storeVars, edVars>>

\* points = sum(...); new_item = Item(body=..., points=..., courses=..., ...)
Construct ==
  /\ ipc = "item"
  /\ \E id \in IdCat :
       LET p == outcome.val
           r == Item(id, p.body, Points(p.criteria), p.courses, p.criteria, p.solution)
       IN  IF r.kind = "ok"
           THEN new_item' = Some(r.val) /\ ipc' = "save" /\ UNCHANGED exit
           ELSE exit' = Exit(1, r) /\ ipc' = "end" /\ UNCHANGED new_item
  /\ trail' = Append(trail, "item")
  /\ UNCHANGED <<callVars, parseVars, tmp, items_dir, fsVars, storeVars, edVars>>

\* out_path = save_item(new_item, Path(items_dir)); click.echo(f"Saved: {out_path}")
Save ==
  /\ ipc = "save"
  /\ LET r == SaveItem(new_item.val, items_dir, dirs, files)
     IN  /\ dirs' = r.dirs
         /\ files' = r.files
         /\ exit' = Exit(0, [fmt |-> SavedMessage, args |-> <<items_dir, r.path>>])
  /\ saved' = Append(saved, new_item.val)
  /\ trail' = Append(trail, "save")
  /\ ipc' = "end"
  /\ UNCHANGED <<callVars, parseVars, tmp, items_dir, new_item, loaded, edVars>>

AddNext ==
  \/ WriteTemplate \/ FindEditorStep \/ RunEditor \/ ReadBack
  \/ Start \/ ScanLine \/ CheckBody \/ CriterionStep \/ CourseStep \/ Return
  \/ ParseDone \/ Finally \/ Construct \/ Save

SpecAdd == AddInit /\ [][AddNext]_vars

(***************************************************************************)
(* Vocabulary of the item add properties                                   *)
(***************************************************************************)
Ended == ipc = "end"

\* The documents in the items directory, as yaml.safe_load reads them.
Records == { YamlLoad(f.text) : f \in { g \in files : g.dir = items_dir } }

RECURSIVE SumInts(_)
SumInts(s) == IF s = <<>> THEN 0 ELSE Head(s) + SumInts(Tail(s))

\* The <<description, points>> a CRITERIA line of the text reads as.
CriterionAt(k) ==
  LET dp == CHOOSE x \in CriterionArgs(Captured(k)) : TRUE
  IN  <<Strip(dp[1]), IntVal(Strip(dp[2]))>>

(***************************************************************************)
(* C11                                                                     *)
(***************************************************************************)
\* C11: every record item add has written carries, under criteria, one
\* entry per CRITERIA line of the edited text, in the order of the lines,
\* with that line's description and points, and under points the sum of
\* those points: zero when there is no such line, negative and zero points
\* summed as they are.
C11_PersistedPointsAreSumOfCriteria ==
  \A data \in Records :
    LET idx == InOrder(CriteriaIdx)
    IN  /\ Get(data, Key.criteria) =
             PyList([n \in 1..Len(idx) |->
                       PyDict(<< <<PyStr(Key.description), PyStr(CriterionAt(idx[n])[1])>>,
                                 <<PyStr(Key.points), PyInt(CriterionAt(idx[n])[2])>> >>)])
        /\ Get(data, Key.points) = PyInt(SumInts([n \in 1..Len(idx) |-> CriterionAt(idx[n])[2]]))

\* A record was written from a text with two criteria, one of them with
\* negative points, and its points are their sum, 1.
C11_Witness ==
  /\ Ended
  /\ \E data \in Records :
       /\ Len(Get(data, Key.criteria).el) = 2
       /\ \E n \in 1..2 : Get(Get(data, Key.criteria).el[n], Key.points).n < 0
       /\ Get(data, Key.points) = PyInt(1)

\* A record was written from a text with no criterion, with points 0.
C11_WitnessNoCriteria ==
  /\ Ended
  /\ \E data \in Records : Get(data, Key.criteria) = PyList(<<>>) /\ Get(data, Key.points) = PyInt(0)

(***************************************************************************)
(* C12                                                                     *)
(***************************************************************************)
\* C12: once parse_template has raised during item add, save_item is never
\* called and the items directory holds no record; and when the command
\* has ended, its exit code is not zero, what it shows is the text of the
\* parse error, and the temporary file is gone.
C12_ParseFailureEndsTheCommand ==
  outcome.kind = "error" =>
    /\ saved = <<>>
    /\ Records = {}
    /\ \A n \in 1..Len(trail) : trail[n] # "save"
    /\ Ended =>
         /\ exit.code # 0
         /\ exit.out = ClickException(outcome.fmt, outcome.args)
         /\ tmp = None

\* The command ended with exit code 1 on a text with a CRITERIA line that
\* is not a \criterion invocation, after the temporary file was written,
\* edited and read back.
C12_Witness ==
  /\ Ended
  /\ outcome.kind = "error"
  /\ outcome.fmt = BadCriterionLine
  /\ exit.code = 1
  /\ trail = <<"write", "editor", "read", "parse", "unlink">>

(***************************************************************************)
(* C13                                                                     *)
(***************************************************************************)

\* The entry a record is to carry for a parsed CourseAssignment.
AssignmentEntry(a) ==
  PyDict(<< <<PyStr(Key.difficulty), PyStr(a.difficulty)>>,
            <<PyStr(Key.topic), IF a.topic.isNone THEN PyNone ELSE PyStr(a.topic.val)>> >>)

\* C13: when item add has ended on a text that parsed, the items directory
\* holds a record that has, under courses, for every course code of the
\* parsed mapping an entry keyed by that code whose value carries the
\* difficulty and the topic of the parsed CourseAssignment.
C13_CoursesPersistedWithDifficultyAndTopic ==
  (Ended /\ outcome.kind = "ok") =>
    \E data \in Records :
      /\ Get(data, Key.courses).t = "dict"
      /\ \A c \in DOMAIN outcome.val.courses :
           /\ Has(Get(data, Key.courses), c)
           /\ Get(Get(data, Key.courses), c) = AssignmentEntry(outcome.val.courses[c])

(***************************************************************************)
(* Vocabulary of the storage properties                                    *)
(***************************************************************************)
\* save_item call n wrote the file that is now at its path: no later call
\* saved an Item with the same id.
LastSaveOfItsId(n) == \A m \in (n + 1)..Len(saved) : saved[m].id # saved[n].id

(***************************************************************************)
(* C14                                                                     *)
(***************************************************************************)
\* C14: load_item on a file save_item has written returns an Item equal in
\* every field to the Item that was saved to it: id, body, points, courses,
\* criteria in their order, and solution, None and the empty text apart.
C14_LoadItemReturnsTheSavedItem ==
  loaded.op = "load_item" =>
    \E n \in 1..Len(saved) :
      /\ LastSaveOfItsId(n)
      /\ loaded.name = FileName(saved[n].id)
      /\ loaded.result = Returned(saved[n])

\* An Item with the body "null", negative points, a course, a criterion and
\* the empty text as solution came back from load_item.
C14_Witness ==
  /\ loaded.op = "load_item"
  /\ loaded.result.kind = "ok"
  /\ loaded.result.val.body = Word.null
  /\ loaded.result.val.points < 0
  /\ loaded.result.val.solution = Some(<<>>)
  /\ DOMAIN loaded.result.val.courses # {}
  /\ loaded.result.val.criteria # <<>>

\* An Item without solution came back from load_item, after a second Item
\* with another id had been saved.
C14_WitnessNone ==
  /\ loaded.op = "load_item"
  /\ loaded.result.kind = "ok"
  /\ loaded.result.val.solution = None
  /\ Len(saved) = 2
  /\ saved[1].id # saved[2].id

(***************************************************************************)
(* Vocabulary of the properties on texts with repeated regions             *)
(***************************************************************************)
BeginIdx(begin) == { k \in 1..Len(lines) : Strip(lines[k]) = begin }

Repeated(begin) == Cardinality(BeginIdx(begin)) >= 2

\* The line of the last begin marker of a region.
LastBegin(begin) == CHOOSE k \in BeginIdx(begin) : \A m \in BeginIdx(begin) : m <= k

AfterLast(S, begin) == { k \in S : k > LastBegin(begin) }

\* The lines numbered in S in source order: as they stand, and trimmed.
RawOf(S) == [n \in 1..Cardinality(S) |-> lines[InOrder(S)[n]]]
TrimmedOf(S) == [n \in 1..Cardinality(S) |-> Strip(lines[InOrder(S)[n]])]

(***************************************************************************)
(* C15                                                                     *)
(***************************************************************************)
\* C15 as stated: when the begin marker of a region occurs more than once,
\* the lines its value is built from are those captured after the last
\* begin marker alone, and the body returned is those lines joined and
\* trimmed.
C15_RepeatedBeginResetsCapture ==
  Done =>
    /\ Repeated(BEGIN_BODY) =>
         /\ body_lines = RawOf(AfterLast(RegionIdx(BEGIN_BODY), BEGIN_BODY))
         /\ Succeeded =>
              outcome.val.body = Strip(JoinNL(RawOf(AfterLast(RegionIdx(BEGIN_BODY), BEGIN_BODY))))
    /\ Repeated(BEGIN_SOLUTION) =>
         solution_lines = TrimmedOf(AfterLast(ContentIdx(BEGIN_SOLUTION), BEGIN_SOLUTION))
    /\ Repeated(BEGIN_CRITERIA) =>
         criteria_lines = TrimmedOf(AfterLast(ContentIdx(BEGIN_CRITERIA), BEGIN_CRITERIA))
    /\ Repeated(BEGIN_COURSES) =>
         courses_lines = TrimmedOf(AfterLast(ContentIdx(BEGIN_COURSES), BEGIN_COURSES))

\* C15 amended: when the begin marker of a region occurs more than once,
\* capture for the region resumes: the lines its value is built from are
\* those captured after every one of its begin markers, in source order,
\* none discarded, and the body returned is those lines joined and trimmed.
C15_RepeatedBeginResumesCapture ==
  Done =>
    /\ Repeated(BEGIN_BODY) =>
         /\ body_lines = RawOf(RegionIdx(BEGIN_BODY))
         /\ Succeeded => outcome.val.body = Strip(JoinNL(RawOf(RegionIdx(BEGIN_BODY))))
    /\ Repeated(BEGIN_SOLUTION) => solution_lines = TrimmedOf(ContentIdx(BEGIN_SOLUTION))
    /\ Repeated(BEGIN_CRITERIA) => criteria_lines = TrimmedOf(ContentIdx(BEGIN_CRITERIA))
    /\ Repeated(BEGIN_COURSES) => courses_lines = TrimmedOf(ContentIdx(BEGIN_COURSES))

\* A parse returned two criteria from a text with two CRITERIA regions, one
\* criterion in each.
C15_Witness ==
  /\ Succeeded
  /\ Repeated(BEGIN_CRITERIA)
  /\ \E k \in CriteriaIdx : k < LastBegin(BEGIN_CRITERIA)
  /\ \E k \in CriteriaIdx : k > LastBegin(BEGIN_CRITERIA)
  /\ Len(outcome.val.criteria) = 2

\* A parse returned a two-line body from a text with two BODY regions.
C15_WitnessBody ==
  /\ Succeeded
  /\ Repeated(BEGIN_BODY)
  /\ Contains(outcome.val.body, "\n")
  /\ \E k \in RegionIdx(BEGIN_BODY) : k < LastBegin(BEGIN_BODY)

(***************************************************************************)
(* C16                                                                     *)
(***************************************************************************)
\* The error raised for the CRITERIA line at source line k.
CriterionErrorAt(k) ==
  IF CriterionArgs(Captured(k)) = {}
  THEN TemplateParseError(BadCriterionLine, <<PyRepr(Captured(k))>>)
  ELSE LET dp == CHOOSE x \in CriterionArgs(Captured(k)) : TRUE
       IN  TemplateParseError(BadPoints, <<PyRepr(Strip(dp[2]))>>)

\* The error raised for the COURSES line at source line k.
CourseErrorAt(k) ==
  IF CourseArgs(Captured(k)) = {}
  THEN TemplateParseError(BadCourseLine, <<PyRepr(Captured(k))>>)
  ELSE LET cdt == CHOOSE x \in CourseArgs(Captured(k)) : TRUE
       IN  TemplateParseError(InvalidDifficulty,
             <<PyRepr(Lower(Strip(cdt[2]))), PyRepr(Strip(cdt[1])), ValidList>>)

\* C16: wherever the regions stand in the text, a finished parse reports
\* the empty body if the body is empty; otherwise the error of the first
\* offending CRITERIA line in source order if there is one; otherwise the
\* error of the first offending COURSES line in source order if there is
\* one; and it fails in no other case.
C16_FixedValidationOrder ==
  Done =>
    /\ BodyRegionBlank => outcome = TemplateParseError(EmptyBody, <<>>)
    /\ ~BodyRegionBlank =>
         \A k \in CriteriaIdx : FirstOffendingCriterion(k) => outcome = CriterionErrorAt(k)
    /\ (~BodyRegionBlank /\ CriteriaValid) =>
         \A k \in CoursesIdx : FirstOffendingCourse(k) => outcome = CourseErrorAt(k)
    /\ (~BodyRegionBlank /\ CriteriaValid /\ CoursesValid) => outcome.kind = "ok"

\* A parse reported an offending CRITERIA line although an offending
\* COURSES line stands before it in the text.
C16_Witness ==
  /\ Failed
  /\ outcome.fmt \in {BadCriterionLine, BadPoints}
  /\ \E k \in CriteriaIdx, m \in CoursesIdx :
       m < k /\ FirstOffendingCriterion(k) /\ OffendingCourse(m)

\* A parse reported the empty body although offending CRITERIA and COURSES
\* lines stand before the BODY region.
C16_WitnessEmptyBody ==
  /\ Failed
  /\ outcome.fmt = EmptyBody
  /\ \E k \in CriteriaIdx : OffendingCriterion(k)
  /\ \E m \in CoursesIdx : OffendingCourse(m)
  /\ \E b \in BeginIdx(BEGIN_BODY) : \A k \in CriteriaIdx \cup CoursesIdx : k < b

\* A parse reported the second of two CRITERIA regions' lines: the first
\* region's lines were valid.
C16_WitnessSecondRegion ==
  /\ Failed
  /\ outcome.fmt = BadPoints
  /\ Repeated(BEGIN_CRITERIA)
  /\ \E k \in CriteriaIdx : k > LastBegin(BEGIN_CRITERIA) /\ FirstOffendingCriterion(k)
  /\ \E k \in CriteriaIdx : k < LastBegin(BEGIN_CRITERIA)

(***************************************************************************)
(* C17                                                                     *)
(***************************************************************************)
\* The keys of a mapping document, in the order written.
KeysOf(doc) == [n \in 1..Len(doc.kv) |-> doc.kv[n][1].text]

\* The files save_item has written into the directory.
SavedFiles == { f \in files : f.dir = items_dir }

\* C17: every file save_item has written is a mapping with the six keys
\* id, body, points, courses, criteria, solution in this order; the
\* solution of an Item without one is the plain scalar null and the courses
\* of an Item without courses the empty mapping.
C17_SixFieldsInFixedOrder ==
  \A f \in SavedFiles :
    /\ f.text.y = "map"
    /\ KeysOf(f.text) = <<Key.id, Key.body, Key.points, Key.courses, Key.criteria, Key.solution>>
    /\ \A n \in 1..Len(saved) :
         (LastSaveOfItsId(n) /\ f.name = FileName(saved[n].id)) =>
           /\ saved[n].solution = None => f.text.kv[6][2] = YamlScalar("plain", Word.null)
           /\ saved[n].solution # None => YamlLoad(f.text.kv[6][2]) = PyStr(saved[n].solution.val)
           /\ DOMAIN saved[n].courses = {} => f.text.kv[4][2] = YamlMap(<<>>)

\* A file holds an Item without solution and without courses.
C17_Witness ==
  \E f \in SavedFiles, n \in 1..Len(saved) :
    /\ LastSaveOfItsId(n)
    /\ f.name = FileName(saved[n].id)
    /\ saved[n].solution = None
    /\ DOMAIN saved[n].courses = {}
    /\ Len(f.text.kv) = 6

\* A file holds an Item whose solution is the text "~".
C17_WitnessText ==
  \E f \in SavedFiles, n \in 1..Len(saved) :
    /\ LastSaveOfItsId(n)
    /\ f.name = FileName(saved[n].id)
    /\ saved[n].solution = Some(<<"~">>)
    /\ f.text.kv[6][2].style = "single"

(***************************************************************************)
(* C18                                                                     *)
(***************************************************************************)
\* The ids of a sequence of Items.
IdsOf(its) == { its[n].id : n \in 1..Len(its) }

DistinctIds(its) == \A m, n \in 1..Len(its) : m # n => its[m].id # its[n].id

\* C18: after Items with pairwise distinct ids have been saved into a
\* directory that was empty, load_all_items on it returns as many Items as
\* were saved, and their ids are the saved ids.
C18_LoadAllItemsReturnsOnePerSaved ==
  (loaded.op = "load_all_items" /\ DistinctIds(saved)) =>
    /\ loaded.result.kind = "ok"
    /\ Len(loaded.result.val) = Len(saved)
    /\ DistinctIds(loaded.result.val)
    /\ IdsOf(loaded.result.val) = IdsOf(saved)

\* load_all_items returned two Items after two Items with distinct ids had
\* been saved.
C18_Witness ==
  /\ loaded.op = "load_all_items"
  /\ Len(saved) = 2
  /\ DistinctIds(saved)
  /\ loaded.result.kind = "ok"
  /\ Len(loaded.result.val) = 2

\* load_all_items returned the empty list from a directory nothing was
\* saved into.
C18_WitnessEmpty ==
  /\ loaded.op = "load_all_items"
  /\ saved = <<>>
  /\ loaded.result = Returned(<<>>)

(***************************************************************************)
(* C19                                                                     *)
(***************************************************************************)
\* The characters of s that are not whitespace.
NoSpace(s) == SelectSeq(s, LAMBDA c : c \notin Whitespace)

RECURSIVE Flatten(_)
Flatten(ws) == IF ws = <<>> THEN <<>> ELSE Head(ws) \o Flatten(Tail(ws))

\* ws is s split into words: as many words as s has runs of non-whitespace
\* characters, none empty, none with whitespace, together the characters of
\* s that are not whitespace.
IsSplitOf(ws, s) ==
  /\ Len(ws) = Cardinality({ k \in 1..Len(s) : s[k] \notin Whitespace
                                               /\ (k = 1 \/ s[k - 1] \in Whitespace) })
  /\ \A n \in 1..Len(ws) : ws[n] # <<>> /\ NoSpace(ws[n]) = ws[n]
  /\ Flatten(ws) = NoSpace(s)

\* The first word of s: its first run of non-whitespace characters.
FirstWord(s) ==
  LET t == Strip(s)
      e == CHOOSE n \in 1..Len(t) :
             /\ \A m \in 1..n : t[m] \notin Whitespace
             /\ n = Len(t) \/ t[n + 1] \in Whitespace
  IN  SubSeq(t, 1, e)

\* The environment variable is set, not blank, and its first word is an
\* executable on the path.
Usable(v) == v # None /\ NoSpace(v.val) # <<>> /\ FirstWord(v.val) \in path

\* C19: find_editor returns the first available of codium, code,
\* code-insiders, subl (each with --new-window --wait), $VISUAL, $EDITOR
\* (each split into words, used only when not blank and its first word is
\* on the path), vi; with none available it fails with the 'no editor
\* found' error.
C19_FirstAvailableEditor ==
  cmd # Pending =>
    LET gui == <<Word.codium, Word.code, Word.code_insiders, Word.subl>>
    IN  /\ \A n \in 1..4 :
             (gui[n] \in path /\ \A m \in 1..(n - 1) : gui[m] \notin path) =>
               cmd = Returned(<<gui[n], Word.new_window, Word.wait>>)
        /\ ((\A n \in 1..4 : gui[n] \notin path) /\ Usable(VISUAL)) =>
             cmd.kind = "ok" /\ IsSplitOf(cmd.val, VISUAL.val)
        /\ ((\A n \in 1..4 : gui[n] \notin path) /\ ~Usable(VISUAL) /\ Usable(EDITOR)) =>
             cmd.kind = "ok" /\ IsSplitOf(cmd.val, EDITOR.val)
        /\ ((\A n \in 1..4 : gui[n] \notin path) /\ ~Usable(VISUAL) /\ ~Usable(EDITOR)) =>
             cmd = IF Word.vi \in path THEN Returned(<<Word.vi>>)
                   ELSE ClickException(NoEditorFound, <<>>)

\* code was returned although codium is the only GUI editor missing and
\* both variables name executables on the path.
C19_Witness ==
  /\ cmd = Returned(<<Word.code, Word.new_window, Word.wait>>)
  /\ Word.codium \notin path
  /\ Word.subl \in path
  /\ Usable(VISUAL) /\ Usable(EDITOR)

\* $VISUAL was returned split into two words, ahead of a usable $EDITOR.
C19_WitnessVisual ==
  /\ cmd = Returned(<<Word.emacsclient, <<"-", "t">> >>)
  /\ Usable(EDITOR)
  /\ EDITOR # VISUAL
  /\ Word.vi \in path

\* $EDITOR was returned: $VISUAL names an executable that is not on the path.
C19_WitnessEditor ==
  /\ cmd = Returned(<<Word.nano>>)
  /\ VISUAL # None /\ NoSpace(VISUAL.val) # <<>> /\ ~Usable(VISUAL)

\* vi was returned with both variables blank or unset.
C19_WitnessVi ==
  /\ cmd = Returned(<<Word.vi>>)
  /\ VISUAL = None
  /\ EDITOR = Some(<<" ", "\t">>)

\* The call failed: nothing on the path.
C19_WitnessNone ==
  /\ cmd = ClickException(NoEditorFound, <<>>)
  /\ Usable(VISUAL) = FALSE
  /\ VISUAL = Some(Word.nano)

(***************************************************************************)
(* C20                                                                     *)
(***************************************************************************)
\* The steps of the run so far, the construction of the Item left out.
Steps == SelectSeq(trail, LAMBDA s : s # "item")

\* The directory and every parent of it exist.
ExistsWithParents(d) == \A n \in 1..Len(d) : SubSeq(d, 1, n) \in dirs

\* C20: an item add that has ended with exit code 0 has written exactly one
\* file, the record of its Item, into the --items-dir directory, which
\* exists with its parents; its steps were write, editor, read, parse,
\* unlink, save in this order; and at any moment save_item has been reached
\* only after parse_template returned a result.
C20_SuccessfulAddPersistsOneRecord ==
  /\ (Ended /\ exit.code = 0) =>
       /\ Cardinality(files) = 1
       /\ Len(saved) = 1
       /\ \A f \in files :
            /\ f.dir = items_dir
            /\ f.name = FileName(saved[1].id)
            /\ f.text = YamlDump(ModelDump(saved[1]))
       /\ ExistsWithParents(items_dir)
       /\ Steps = <<"write", "editor", "read", "parse", "unlink", "save">>
       /\ tmp = None
  /\ (\E n \in 1..Len(trail) : trail[n] = "save") =>
       /\ outcome.kind = "ok"
       /\ \E m, n \in 1..Len(trail) : m < n /\ trail[m] = "parse" /\ trail[n] = "save"
  /\ (files # {} \/ saved # <<>>) => \E n \in 1..Len(trail) : trail[n] = "save"

\* An item add ended with exit code 0 and one file in subdir/items, the
\* record of an Item with a criterion and a solution.
C20_Witness ==
  /\ Ended
  /\ exit.code = 0
  /\ items_dir = <<"subdir", "items">>
  /\ Cardinality(files) = 1
  /\ saved[1].criteria # <<>>
  /\ saved[1].solution # None

\* An item add ended with a non-zero exit code after the editor ran, and
\* nothing was saved.
C20_WitnessFailure ==
  /\ Ended
  /\ exit.code = 1
  /\ Len(trail) >= 2 /\ trail[2] = "editor"
  /\ outcome.kind = "error"
  /\ files = {}

(***************************************************************************)
(* Calls of parse_template one after another: a first text, then a text    *)
(* derived from it or an unrelated one, then the first text again          *)
(***************************************************************************)
\* The lines of the texts drawn freely: the eight markers, markers with
\* whitespace around them, a line that only starts like a marker, and lines
\* of content, two of them malformed.
LineCat ==
  { BEGIN_BODY, END_BODY, BEGIN_SOLUTION, END_SOLUTION,
    BEGIN_CRITERIA, END_CRITERIA, BEGIN_COURSES, END_COURSES,
    <<" ", "\t">> \o BEGIN_CRITERIA \o <<" ">>,
    <<" ">> \o END_SOLUTION \o <<"\t">>,
    BEGIN_BODY \o <<" ", "x">>,
    <<"Q">>,
    Criterion(<<"D">>, <<"2">>),
    Criterion(<<"D">>, <<"x">>),
    Course2(<<"A">>, Easy) }

\* Three texts unrelated to the first one: one parses to two criteria and a
\* solution, one fails on its second criterion, one has a \course line in
\* its CRITERIA region and a \criterion line in its COURSES region.
OtherTexts ==
  { LayoutText(StandardLayout, TRUE, << <<"o">> >>, << <<"s">> >>,
               <<Criterion(<<"F">>, <<"5">>), Criterion(<<"G">>, <<"7">>)>>, <<>>),
    LayoutText(StandardLayout, TRUE, << <<"o">> >>, <<>>,
               <<Criterion(<<"F">>, <<"5">>), Criterion(<<"G">>, <<"y">>)>>, <<>>),
    LayoutText(StandardLayout, TRUE, << <<"o">> >>, <<>>,
               <<Course2(<<"A">>, Easy)>>, <<Criterion(<<"D">>, <<"x">>)>>) }

\* The texts derived from the lines ls of a text: ls without its lines
\* outside every region; ls with one malformed line more, or one line that
\* stood there changed into it, outside every region; and, when ls is
\* the four regions once each, every order of the four.
Variants(ls) ==
  LET n         == Len(ls)
      IsM(k)    == IsMarker(Strip(ls[k]))
      IsEnd(k)  == Strip(ls[k]) \in {END_BODY, END_SOLUTION, END_CRITERIA, END_COURSES}
      \* the scan state is Outside after the first k lines
      Out(k)    == \A m \in 1..k : (IsM(m) /\ \A x \in (m + 1)..k : ~IsM(x)) => IsEnd(m)
      Pick(S)   == [m \in 1..Cardinality(S) |->
                      ls[CHOOSE k \in S : Cardinality({x \in S : x < k}) = m - 1]]
      outside   == { k \in 1..n : ~IsM(k) /\ Out(k - 1) }
      extra     == { Criterion(<<"D">>, <<"x">>), Course2(<<"A">>, Easy) }
      At(m)     == CHOOSE k \in 1..n : ls[k] = m
      regions   == {"BODY", "SOLUTION", "CRITERIA", "COURSES"}
      once      == /\ \A r \in regions :
                        /\ Cardinality({ k \in 1..n : ls[k] = Begin(r)[1] }) = 1
                        /\ Cardinality({ k \in 1..n : ls[k] = End(r)[1] }) = 1
                        /\ At(Begin(r)[1]) < At(End(r)[1])
                        /\ \A k \in (At(Begin(r)[1]) + 1)..(At(End(r)[1]) - 1) : ~IsM(k)
                   /\ outside = {}
      Block(r)  == SubSeq(ls, At(Begin(r)[1]), At(End(r)[1]))
  IN  { Pick((1..n) \ outside) }
      \cup { SubSeq(ls, 1, k) \o <<x>> \o SubSeq(ls, k + 1, n) :
               k \in { q \in 0..n : Out(q) }, x \in extra }
      \cup { [ls EXCEPT ![k] = x] : k \in outside, x \in extra }
      \cup (IF once
            THEN { Block(p[1]) \o Block(p[2]) \o Block(p[3]) \o Block(p[4]) :
                     p \in { q \in [1..4 -> regions] : \A r \in regions : \E m \in 1..4 : q[m] = r } }
            ELSE {})

CallsInit ==
  /\ content \in { Text(ls) : ls \in UNION { [1..n -> LineCat] : n \in 0..MaxLines } }
                   \cup LayoutTexts(StandardLayout, TRUE)
  /\ pc = "call"
  /\ lines = <<>>
  /\ i = 1
  /\ state = "OUTSIDE"
  /\ body_lines = <<>>
  /\ solution_lines = <<>>
  /\ criteria_lines = <<>>
  /\ courses_lines = <<>>
  /\ body = <<>>
  /\ solution_text = None
  /\ j = 1
  /\ criteria = <<>>
  /\ courses = <<>>
  /\ outcome = Pending
  /\ history = <<>>
  /\ AddIdle /\ FsIdle /\ StoreIdle /\ EdIdle

\* parse_template has returned or raised and is called again: after the
\* first call on a text derived from the first or on an unrelated one,
\* after an unrelated one on the first text again. Nothing of the call
\* that ended is cleared here.
CallAgain ==
  /\ pc = "done"
  /\ history' = Append(history, [lines |-> lines, outcome |-> outcome])
  /\ content' \in IF history = <<>> THEN { Text(v) : v \in Variants(lines) } \cup OtherTexts
                  ELSE IF content \in OtherTexts /\ Len(history) = 1
                  THEN { Text(history[1].lines) }
                  ELSE {}
  /\ pc' = "call"
  /\ outcome' = Pending
  /\ UNCHANGED <<lines, i, state, body_lines, solution_lines, criteria_lines, courses_lines,
                 body, solution_text, j, criteria, courses>>
  /\ UNCHANGED <<addVars, fsVars, storeVars, edVars>>

CallsNext == Start \/ ScanLine \/ CheckBody \/ CriterionStep \/ CourseStep \/ Return \/ CallAgain

SpecCalls == CallsInit /\ [][CallsNext]_vars

(***************************************************************************)
(* C21                                                                     *)
(***************************************************************************)
\* The section the last marker line among the first k lines names: the
\* section of a begin marker, Outside after any end marker and when there
\* is no marker line.
SectionAfter(k) ==
  LET last == { m \in 1..k : MarkerAt(m) /\ \A x \in (m + 1)..k : ~MarkerAt(x) }
      t    == Strip(lines[CHOOSE m \in last : TRUE])
  IN  IF last = {} THEN "OUTSIDE"
      ELSE IF t = <<"%", " ", "@", "@", "B", "E", "G", "I", "N", "_", "B", "O", "D", "Y">>
      THEN "IN_BODY"
      ELSE IF t = <<"%", " ", "@", "@", "B", "E", "G", "I", "N", "_",
                    "S", "O", "L", "U", "T", "I", "O", "N">>
      THEN "IN_SOLUTION"
      ELSE IF t = <<"%", " ", "@", "@", "B", "E", "G", "I", "N", "_",
                    "C", "R", "I", "T", "E", "R", "I", "A">>
      THEN "IN_CRITERIA"
      ELSE IF t = <<"%", " ", "@", "@", "B", "E", "G", "I", "N", "_",
                    "C", "O", "U", "R", "S", "E", "S">>
      THEN "IN_COURSES"
      ELSE "OUTSIDE"

\* C21: at every moment of the scan the state is the one the last marker
\* line taken so far names, whatever the state was when that line was
\* taken: the section of a begin marker, Outside after any end marker, and
\* Outside while no marker line has been taken.
C21_StateFollowsLastMarker ==
  /\ state \in Section
  /\ pc # "call" => state = SectionAfter(i - 1)
  /\ pc = "call" => (history = <<>> => state = "OUTSIDE")

\* The scan is Outside right after the COURSES end marker taken in the
\* BODY section.
C21_Witness ==
  /\ pc = "scan"
  /\ i = 3
  /\ lines[1] = BEGIN_BODY
  /\ lines[2] = END_COURSES
  /\ state = "OUTSIDE"

\* The scan is in the CRITERIA section right after its begin marker,
\* written with whitespace around it, taken in the BODY section.
C21_WitnessSwitch ==
  /\ i = 3
  /\ lines[1] = BEGIN_BODY
  /\ lines[2] # BEGIN_CRITERIA
  /\ Strip(lines[2]) = BEGIN_CRITERIA
  /\ state = "IN_CRITERIA"

\* The scan is still in the BODY section after a line that only starts
\* like a marker.
C21_WitnessNoMarker ==
  /\ i = 3
  /\ lines[1] = BEGIN_BODY
  /\ lines[2] = BEGIN_BODY \o <<" ", "x">>
  /\ state = "IN_BODY"
  /\ body_lines = <<lines[2]>>

(***************************************************************************)
(* C22                                                                     *)
(***************************************************************************)
\* C22: whenever the parse fails with BadCourseLine, the message cites the
\* offending line, and the format it gives as expected is the one the
\* parser requires: a line written in that format, with a code and a valid
\* difficulty, matches the course pattern.
C22_BadCourseLineCitesRequiredSyntax ==
  (Failed /\ outcome.fmt = BadCourseLine) =>
    /\ \E k \in CoursesIdx : outcome.args = <<PyRepr(Captured(k))>>
    /\ \A d \in Difficulty : COURSE_RE(ExpectedCourseFormat(<<"A">>, d)).ok

(***************************************************************************)
(* Vocabulary of the properties that compare two calls                     *)
(***************************************************************************)
BeginMarkers == <<BEGIN_BODY, BEGIN_SOLUTION, BEGIN_CRITERIA, BEGIN_COURSES>>
EndMarkers == <<END_BODY, END_SOLUTION, END_CRITERIA, END_COURSES>>

\* The line numbers of ls whose trimmed text is m.
Where(ls, m) == { k \in 1..Len(ls) : Strip(ls[k]) = m }

\* In ls each of the four regions appears exactly once: one begin marker,
\* one end marker after it, no marker line in between.
OnceEach(ls) ==
  \A r \in 1..4 :
    /\ Cardinality(Where(ls, BeginMarkers[r])) = 1
    /\ Cardinality(Where(ls, EndMarkers[r])) = 1
    /\ \E b \in Where(ls, BeginMarkers[r]), e \in Where(ls, EndMarkers[r]) :
         b < e /\ \A k \in (b + 1)..(e - 1) : ~IsMarker(Strip(ls[k]))

\* The lines of region r of ls, between its begin and its end marker.
Inside(ls, r) ==
  LET b == CHOOSE k \in Where(ls, BeginMarkers[r]) : TRUE
      e == CHOOSE k \in Where(ls, EndMarkers[r]) : TRUE
  IN  SubSeq(ls, b + 1, e - 1)

\* The order in which the regions of ls begin.
OrderOf(ls) ==
  [r \in 1..4 |-> Cardinality({ q \in 1..4 :
     (CHOOSE k \in Where(ls, BeginMarkers[q]) : TRUE) <= (CHOOSE k \in Where(ls, BeginMarkers[r]) : TRUE) })]

\* The calls that have ended, the one at hand included when it has.
CallsEnded == history \o (IF pc = "done" THEN <<[lines |-> lines, outcome |-> outcome]>> ELSE <<>>)

(***************************************************************************)
(* C23                                                                     *)
(***************************************************************************)
\* C23: a call on a text that holds each of the four regions exactly once
\* ends with the same outcome, the same ParsedTemplate or the same error,
\* as every earlier call on a text that holds each region exactly once
\* with the same lines inside it, whatever the order of the regions in the
\* two texts.
C23_OrderOfRegionsIsImmaterial ==
  pc = "done" =>
    \A m \in 1..Len(history) :
      (/\ OnceEach(lines)
       /\ OnceEach(history[m].lines)
       /\ \A r \in 1..4 : Inside(history[m].lines, r) = Inside(lines, r)) =>
        outcome = history[m].outcome

\* Two calls ended with the same criterion error; in the second text the
\* COURSES region, with an offending line, stands before the CRITERIA
\* region.
C23_Witness ==
  /\ Len(CallsEnded) = 2
  /\ OnceEach(CallsEnded[1].lines) /\ OnceEach(CallsEnded[2].lines)
  /\ \A r \in 1..4 : Inside(CallsEnded[1].lines, r) = Inside(CallsEnded[2].lines, r)
  /\ OrderOf(CallsEnded[1].lines) = <<1, 2, 3, 4>>
  /\ OrderOf(CallsEnded[2].lines)[4] < OrderOf(CallsEnded[2].lines)[3]
  /\ CallsEnded[2].outcome.kind = "error"
  /\ CallsEnded[2].outcome.fmt = BadPoints
  /\ Inside(CallsEnded[2].lines, 4) # <<>>
  /\ CourseArgs(Inside(CallsEnded[2].lines, 4)[1]) = {}

\* Two calls returned the same ParsedTemplate, with a criterion and a
\* course; in the second text the regions stand in the reverse order.
C23_WitnessParsed ==
  /\ Len(CallsEnded) = 2
  /\ OnceEach(CallsEnded[1].lines) /\ OnceEach(CallsEnded[2].lines)
  /\ OrderOf(CallsEnded[2].lines) = <<4, 3, 2, 1>>
  /\ CallsEnded[1].outcome = CallsEnded[2].outcome
  /\ CallsEnded[2].outcome.kind = "ok"
  /\ CallsEnded[2].outcome.val.criteria # <<>>
  /\ Inside(CallsEnded[2].lines, 4) # <<>>

(***************************************************************************)
(* C24                                                                     *)
(***************************************************************************)
\* C24: a call ends with the same outcome, the same ParsedTemplate or the
\* same error, as every earlier call on the same text, whatever was parsed
\* in between.
C24_SameTextSameOutcome ==
  pc = "done" =>
    \A m \in 1..Len(history) :
      history[m].lines = lines => outcome = history[m].outcome

\* The third call returned what the first call on the same text had
\* returned, a ParsedTemplate with a criterion and a course, after a call
\* on another text had returned two other criteria.
C24_Witness ==
  /\ pc = "done"
  /\ Len(history) = 2
  /\ history[1].lines = lines
  /\ history[2].lines # lines
  /\ history[2].outcome.kind = "ok"
  /\ Len(history[2].outcome.val.criteria) = 2
  /\ outcome.kind = "ok"
  /\ Len(outcome.val.criteria) = 1
  /\ DOMAIN outcome.val.courses # {}

\* The third call raised the empty-body error the first call on the same
\* text had raised, after a call on another text had failed on a criterion.
C24_WitnessError ==
  /\ pc = "done"
  /\ Len(history) = 2
  /\ history[1].lines = lines
  /\ history[2].outcome.kind = "error"
  /\ history[2].outcome.fmt = BadPoints
  /\ outcome = history[1].outcome
  /\ outcome.kind = "error"
  /\ outcome.fmt = EmptyBody

(***************************************************************************)
(* C25                                                                     *)
(***************************************************************************)
\* Steps n of the run that are step s.
StepsThat(s) == { n \in 1..Len(trail) : trail[n] = s }

\* open_editor has failed: find_editor raised, or the editor was run and
\* control went on without the file being read back.
EditorFailed ==
  \/ cmd.kind = "ClickException"
  \/ /\ StepsThat("editor") # {}
     /\ ipc \in {"finally", "item", "save", "end"}
     /\ StepsThat("read") = {}

\* C25: once open_editor has failed in item add, the command carries
\* exit code 1 with one of the three editor messages, none of them a
\* message of the parser; the editor has run at most once; parse_template
\* has not been entered and nothing has been saved, then or later; and when
\* the command has ended the temporary file is gone.
C25_EditorFailureEndsTheCommand ==
  EditorFailed =>
    /\ exit.kind = "exit" /\ exit.code = 1
    /\ exit.out.kind = "ClickException"
    /\ exit.out.fmt \in {NoEditorFound, EditorExited, EditorNotFound}
    /\ exit.out.fmt \notin {EmptyBody, BadCriterionLine, BadPoints, BadCourseLine,
                            InvalidDifficulty}
    /\ Cardinality(StepsThat("editor")) <= 1
    /\ StepsThat("read") = {} /\ StepsThat("parse") = {}
    /\ pc = "idle" /\ outcome = Pending
    /\ StepsThat("item") = {} /\ StepsThat("save") = {}
    /\ saved = <<>> /\ files = {}
    /\ ipc \in {"finally", "end"}
    /\ Ended => (tmp = None /\ Cardinality(StepsThat("unlink")) = 1)

\* item add has ended after the editor exited with a non-zero code.
C25_Witness ==
  /\ Ended
  /\ EditorFailed
  /\ exit.out.fmt = EditorExited
  /\ trail = <<"write", "editor", "unlink">>

\* item add has ended after no editor was found.
C25_WitnessNoEditor ==
  /\ Ended
  /\ EditorFailed
  /\ exit.out.fmt = NoEditorFound
  /\ trail = <<"write", "unlink">>

\* item add has ended after the editor executable could not be started.
C25_WitnessMissing ==
  /\ Ended
  /\ EditorFailed
  /\ exit.out.fmt = EditorNotFound
  /\ tmp = None

(***************************************************************************)
(* C26                                                                     *)
(***************************************************************************)
\* The non-marker lines of ls that stand outside every region: no marker
\* line before them, or the last marker line before them is an end marker.
OutsideOf(ls) ==
  { k \in 1..Len(ls) :
      /\ ~IsMarker(Strip(ls[k]))
      /\ \A m \in 1..(k - 1) :
           (IsMarker(Strip(ls[m])) /\ \A x \in (m + 1)..(k - 1) : ~IsMarker(Strip(ls[x])))
             => \E r \in 1..4 : Strip(ls[m]) = EndMarkers[r] }

\* ls without its lines outside every region.
Kept(ls) ==
  LET S == (1..Len(ls)) \ OutsideOf(ls)
  IN  [n \in 1..Cardinality(S) |-> ls[CHOOSE k \in S : Cardinality({x \in S : x < k}) = n - 1]]

\* The source line whose validation raised the error the parse ended with.
ErrorLine ==
  IF outcome.fmt \in {BadCriterionLine, BadPoints}
  THEN InOrder(CriteriaIdx)[j] ELSE InOrder(CoursesIdx)[j]

\* s is a \criterion line, or a \course line, that its own region rejects.
MalformedCriterion(s) ==
  StartsWith(s, <<"\\">> \o W_criterion) /\ CriterionOf(s).kind = "error"

MalformedCourse(s) ==
  StartsWith(s, <<"\\">> \o W_course) /\ CourseOf(s).kind = "error"

\* A finished scan has captured the non-marker lines of each region and
\* nothing else: no marker line and no line outside every region.
OnlyRegionLinesCaptured ==
  Done =>
    /\ body_lines = RawOf(RegionIdx(BEGIN_BODY))
    /\ solution_lines = TrimmedOf(ContentIdx(BEGIN_SOLUTION))
    /\ criteria_lines = TrimmedOf(ContentIdx(BEGIN_CRITERIA))
    /\ courses_lines = TrimmedOf(ContentIdx(BEGIN_COURSES))
    /\ \A k \in OutsideOf(lines) :
         \A b \in {BEGIN_BODY, BEGIN_SOLUTION, BEGIN_CRITERIA, BEGIN_COURSES} :
           k \notin RegionIdx(b)

\* A call ends with the outcome of every earlier call on a text that
\* differs from its text only in non-marker lines outside every region.
OutsideLinesImmaterial ==
  pc = "done" =>
    \A m \in 1..Len(history) :
      Kept(history[m].lines) = Kept(lines) => outcome = history[m].outcome

\* An error other than the empty body is the error of a line of the
\* CRITERIA region, or of a line of the COURSES region, for the loop that
\* raised it.
OnlyRegionLinesValidated ==
  (Failed /\ outcome.fmt # EmptyBody) =>
    IF outcome.fmt \in {BadCriterionLine, BadPoints}
    THEN /\ j \in 1..Cardinality(CriteriaIdx)
         /\ outcome = CriterionErrorAt(ErrorLine)
    ELSE /\ j \in 1..Cardinality(CoursesIdx)
         /\ outcome = CourseErrorAt(ErrorLine)

\* C26 as stated: lines outside every region and marker lines are never
\* captured; a text that differs only in its non-marker lines outside every
\* region has the same outcome; and no error is raised for a malformed
\* \criterion line that stands outside the CRITERIA region, nor for a
\* malformed \course line that stands outside the COURSES region.
C26_MalformedLineOutsideItsRegionIsIgnored ==
  /\ OnlyRegionLinesCaptured
  /\ OutsideLinesImmaterial
  /\ (Failed /\ outcome.fmt # EmptyBody) =>
       /\ MalformedCriterion(Captured(ErrorLine)) => ErrorLine \in RegionIdx(BEGIN_CRITERIA)
       /\ MalformedCourse(Captured(ErrorLine)) => ErrorLine \in RegionIdx(BEGIN_COURSES)

\* C26: lines outside every region and marker lines are never captured; a
\* text that differs only in its non-marker lines outside every region has
\* the same outcome; and an error is raised only for a line of the CRITERIA
\* region or of the COURSES region, so that a malformed \criterion or
\* \course line outside every region, or in the BODY or the SOLUTION
\* region, raises none.
C26_OnlyRegionLinesCount ==
  /\ OnlyRegionLinesCaptured
  /\ OutsideLinesImmaterial
  /\ OnlyRegionLinesValidated

\* The second call returned the ParsedTemplate of the first, with a
\* criterion; its text has one line more, a malformed \criterion line
\* outside every region.
C26_Witness ==
  /\ pc = "done"
  /\ Len(history) = 1
  /\ Len(lines) = Len(history[1].lines) + 1
  /\ Kept(lines) = Kept(history[1].lines)
  /\ \E k \in OutsideOf(lines) : MalformedCriterion(Captured(k))
  /\ outcome.kind = "ok"
  /\ outcome.val.criteria # <<>>
  /\ outcome = history[1].outcome

\* The second call raised the error of the first, for a CRITERIA line; its
\* text has one line more, a malformed \course line outside every region.
C26_WitnessError ==
  /\ pc = "done"
  /\ Len(history) = 1
  /\ Len(lines) = Len(history[1].lines) + 1
  /\ Kept(lines) = Kept(history[1].lines)
  /\ \E k \in OutsideOf(lines) : MalformedCourse(Captured(k))
  /\ Failed /\ outcome.fmt = BadPoints
  /\ outcome = history[1].outcome

\* The second call raised the empty-body error of the first; its text has
\* lost the line that stood outside every region, before a begin marker.
C26_WitnessRemoved ==
  /\ pc = "done"
  /\ Len(history) = 1
  /\ Len(lines) = 1 /\ Len(history[1].lines) = 2
  /\ OutsideOf(history[1].lines) = {1}
  /\ lines = Kept(history[1].lines)
  /\ outcome = history[1].outcome

\* A parse returned a body that is a malformed \criterion line: the line
\* stands in the BODY region and was not validated.
C26_WitnessInBody ==
  /\ Succeeded
  /\ \E k \in RegionIdx(BEGIN_BODY) : MalformedCriterion(Captured(k))
  /\ MalformedCriterion(outcome.val.body)

\* A parse ended on a text whose BODY region holds a marker line and
\* nothing else: the marker line changed the state and no line was captured.
C26_WitnessMarkerInBody ==
  /\ Done
  /\ Len(lines) = 2
  /\ Strip(lines[1]) = BEGIN_BODY
  /\ Strip(lines[2]) = BEGIN_CRITERIA
  /\ state = "IN_CRITERIA"
  /\ body_lines = <<>> /\ criteria_lines = <<>>

(***************************************************************************)
(* C27                                                                     *)
(***************************************************************************)
\* The last Item saved with the id.
LastSaved(id) ==
  saved[CHOOSE n \in 1..Len(saved) :
          saved[n].id = id /\ \A m \in (n + 1)..Len(saved) : saved[m].id # id]

\* C27: after any sequence of save_item calls on one directory, every file
\* is in that directory; there is one file for each id saved and no other,
\* named <id>.yaml; and the text of each is the dump of the Item saved last
\* with that id.
C27_OneFilePerIdHoldingLastSave ==
  /\ files = SavedFiles
  /\ Cardinality(SavedFiles) = Cardinality(IdsOf(saved))
  /\ { f.name : f \in SavedFiles } = { FileName(id) : id \in IdsOf(saved) }
  /\ \A id \in IdsOf(saved) :
       ReadText(files, items_dir, FileName(id)) = YamlDump(ModelDump(LastSaved(id)))
  /\ saved # <<>> => items_dir \in dirs

\* Two different Items were saved with the same id: the directory holds
\* one file, with the text of the second and not of the first.
C27_Witness ==
  /\ Len(saved) = 2
  /\ saved[1].id = saved[2].id
  /\ YamlDump(ModelDump(saved[1])) # YamlDump(ModelDump(saved[2]))
  /\ Cardinality(SavedFiles) = 1
  /\ \A f \in SavedFiles : f.text = YamlDump(ModelDump(saved[2]))

\* Two Items were saved with different ids: the directory holds two files.
C27_WitnessTwoIds ==
  /\ Len(saved) = 2
  /\ saved[1].id # saved[2].id
  /\ Cardinality(SavedFiles) = 2

====
